---------------------------- MODULE Spec2Model ----------------------------
(***************************************************************************)
(* Pagination, filtering and cursor addressing of the REST, GraphQL and    *)
(* gRPC demo servers.                                                      *)
(*                                                                         *)
(* Text is a sequence of character codes (UTF-16 code units, ASCII here),  *)
(* so that case folding, ordering, JSON and base64 are computed, not       *)
(* assumed.  A JavaScript value is a tagged record [t, v]:                 *)
(*   "num" (v an integer), "str" (v a text), "undef", "null", "nan",       *)
(*   "bool" (v 0 or 1), "obj" (v a sequence of <<key, value>> pairs),      *)
(*   "arr" (v a sequence of values).                                       *)
(***************************************************************************)
EXTENDS Integers, Sequences, FiniteSets, TLC

(***************************************************************************)
(* Bounds of the model.                                                    *)
(***************************************************************************)
\* rows of the mock database in the general specifications
NumUsers == 6
\* rows beyond the page-size cap in the boundary specification
ExtraUsers == 4
\* writer steps in the specification with a concurrent writer
MaxWrites == 1

(***************************************************************************)
(* JavaScript values.                                                      *)
(***************************************************************************)
Num(n) == [t |-> "num", v |-> n]
Str(s) == [t |-> "str", v |-> s]
Undefined == [t |-> "undef", v |-> 0]
Null == [t |-> "null", v |-> 0]
NaN == [t |-> "nan", v |-> 0]
Bool(b) == [t |-> "bool", v |-> IF b THEN 1 ELSE 0]
Obj(pairs) == [t |-> "obj", v |-> pairs]
Arr(items) == [t |-> "arr", v |-> items]

\* a === b on the values the handlers compare (primitives)
StrictEq(a, b) == a.t = b.t /\ a.t # "nan" /\ a.v = b.v

\* !!x
Truthy(x) ==
  CASE x.t = "num" -> x.v # 0
    [] x.t = "str" -> x.v # <<>>
    [] x.t = "bool" -> x.v = 1
    [] x.t \in {"obj", "arr"} -> TRUE
    [] OTHER -> FALSE

\* a || b
OrElse(a, b) == IF Truthy(a) THEN a ELSE b

\* obj[key]: a property read; undefined on a primitive or a missing key
RECURSIVE Lookup(_, _, _)
Lookup(pairs, key, i) ==
  IF i = 0 THEN Undefined
  ELSE IF pairs[i][1] = key THEN pairs[i][2]
  ELSE Lookup(pairs, key, i - 1)

Get(x, key) == IF x.t = "obj" THEN Lookup(x.v, key, Len(x.v)) ELSE Undefined

(***************************************************************************)
(* Text.                                                                   *)
(***************************************************************************)
Min(a, b) == IF a < b THEN a ELSE b
Max(a, b) == IF a > b THEN a ELSE b

\* String.prototype.toLowerCase on ASCII
LowerChar(c) == IF c >= 65 /\ c <= 90 THEN c + 32 ELSE c
ToLowerCase(s) == [i \in 1..Len(s) |-> LowerChar(s[i])]

\* a < b on strings: code-unit lexicographic order
RECURSIVE TextLessFrom(_, _, _)
TextLessFrom(a, b, i) ==
  IF i > Len(b) THEN FALSE
  ELSE IF i > Len(a) THEN TRUE
  ELSE IF a[i] < b[i] THEN TRUE
  ELSE IF a[i] > b[i] THEN FALSE
  ELSE TextLessFrom(a, b, i + 1)

TextLess(a, b) == TextLessFrom(a, b, 1)

\* s.startsWith(p), s.endsWith(p), s.includes(p)
StartsWith(s, p) == Len(p) <= Len(s) /\ SubSeq(s, 1, Len(p)) = p
EndsWith(s, p) == Len(p) <= Len(s) /\ SubSeq(s, Len(s) - Len(p) + 1, Len(s)) = p
Includes(s, p) ==
  \E k \in 0..(Len(s) - Len(p)) : SubSeq(s, k + 1, k + Len(p)) = p

\* String(n) for an integer n
RECURSIVE Digits(_)
Digits(n) == IF n < 10 THEN <<48 + n>> ELSE Append(Digits(n \div 10), 48 + (n % 10))

NumberToString(n) == IF n < 0 THEN <<45>> \o Digits(0 - n) ELSE Digits(n)

IsDigit(c) == c >= 48 /\ c <= 57

(***************************************************************************)
(* JSON.stringify and JSON.parse.  Numbers are integers: no key value of   *)
(* the servers has a fraction, and no token of the model decodes to a text *)
(* with a fraction or an exponent.                                         *)
(***************************************************************************)
HexDigit(n) == IF n < 10 THEN 48 + n ELSE 87 + n

\* one character inside a JSON string literal
EscapeChar(c) ==
  CASE c = 34 -> <<92, 34>>
    [] c = 92 -> <<92, 92>>
    [] c = 8 -> <<92, 98>>
    [] c = 9 -> <<92, 116>>
    [] c = 10 -> <<92, 110>>
    [] c = 12 -> <<92, 102>>
    [] c = 13 -> <<92, 114>>
    [] c < 32 -> <<92, 117, 48, 48, HexDigit(c \div 16), HexDigit(c % 16)>>
    [] OTHER -> <<c>>

RECURSIVE EscapeFrom(_, _)
EscapeFrom(s, i) == IF i > Len(s) THEN <<>> ELSE EscapeChar(s[i]) \o EscapeFrom(s, i + 1)

Quote(s) == <<34>> \o EscapeFrom(s, 1) \o <<34>>

RECURSIVE JSONStringify(_)
RECURSIVE StringifyMembers(_, _, _)
RECURSIVE StringifyElements(_, _)
\* the members of an object, a member whose value is undefined left out
StringifyMembers(pairs, i, first) ==
  IF i > Len(pairs) THEN <<>>
  ELSE IF pairs[i][2].t = "undef" THEN StringifyMembers(pairs, i + 1, first)
  ELSE (IF first THEN <<>> ELSE <<44>>)
       \o Quote(pairs[i][1]) \o <<58>> \o JSONStringify(pairs[i][2])
       \o StringifyMembers(pairs, i + 1, FALSE)

StringifyElements(items, i) ==
  IF i > Len(items) THEN <<>>
  ELSE (IF i = 1 THEN <<>> ELSE <<44>>)
       \o (IF items[i].t = "undef" THEN <<110, 117, 108, 108>> ELSE JSONStringify(items[i]))
       \o StringifyElements(items, i + 1)

JSONStringify(x) ==
  CASE x.t = "num" -> NumberToString(x.v)
    [] x.t = "str" -> Quote(x.v)
    [] x.t = "bool" -> IF x.v = 1 THEN <<116, 114, 117, 101>> ELSE <<102, 97, 108, 115, 101>>
    [] x.t = "obj" -> <<123>> \o StringifyMembers(x.v, 1, TRUE) \o <<125>>
    [] x.t = "arr" -> <<91>> \o StringifyElements(x.v, 1) \o <<93>>
    [] OTHER -> <<110, 117, 108, 108>>

\* the result of a parsing step: the value and the index after it
ParseFail == [ok |-> FALSE, val |-> Undefined, pos |-> 0]
ParseOk(val, pos) == [ok |-> TRUE, val |-> val, pos |-> pos]

RECURSIVE SkipWs(_, _)
SkipWs(s, i) ==
  IF i <= Len(s) /\ s[i] \in {32, 9, 10, 13} THEN SkipWs(s, i + 1) ELSE i

HexValue(c) ==
  CASE c >= 48 /\ c <= 57 -> c - 48
    [] c >= 97 /\ c <= 102 -> c - 87
    [] c >= 65 /\ c <= 70 -> c - 55
    [] OTHER -> 0 - 1

Unescape(c) ==
  CASE c = 34 -> 34
    [] c = 92 -> 92
    [] c = 47 -> 47
    [] c = 98 -> 8
    [] c = 102 -> 12
    [] c = 110 -> 10
    [] c = 114 -> 13
    [] c = 116 -> 9
    [] OTHER -> 0 - 1

\* the rest of a string literal, from index i (after the opening quote)
RECURSIVE ParseString(_, _, _)
ParseString(s, i, acc) ==
  IF i > Len(s) THEN ParseFail
  ELSE IF s[i] = 34 THEN ParseOk(Str(acc), i + 1)
  ELSE IF s[i] < 32 THEN ParseFail
  ELSE IF s[i] # 92 THEN ParseString(s, i + 1, Append(acc, s[i]))
  ELSE IF i + 1 > Len(s) THEN ParseFail
  ELSE IF s[i + 1] = 117 THEN
         IF i + 5 > Len(s) \/ \E k \in 2..5 : HexValue(s[i + k]) < 0 THEN ParseFail
         ELSE ParseString(s, i + 6,
                Append(acc, 4096 * HexValue(s[i + 2]) + 256 * HexValue(s[i + 3])
                            + 16 * HexValue(s[i + 4]) + HexValue(s[i + 5])))
  ELSE IF Unescape(s[i + 1]) < 0 THEN ParseFail
  ELSE ParseString(s, i + 2, Append(acc, Unescape(s[i + 1])))

RECURSIVE ParseDigits(_, _, _)
ParseDigits(s, i, n) ==
  IF i <= Len(s) /\ IsDigit(s[i]) THEN ParseDigits(s, i + 1, 10 * n + (s[i] - 48))
  ELSE [n |-> n, pos |-> i]

\* the number whose digits start at index j, negated when neg
ParseNumberDigits(s, j, neg, d) == ParseOk(Num((IF neg THEN 0 - 1 ELSE 1) * d.n), d.pos)

ParseNumberFrom(s, j, neg) ==
  IF j > Len(s) \/ ~IsDigit(s[j]) THEN ParseFail
  ELSE IF s[j] = 48 THEN ParseNumberDigits(s, j, neg, [n |-> 0, pos |-> j + 1])
  ELSE ParseNumberDigits(s, j, neg, ParseDigits(s, j, 0))

\* -? (0 | [1-9][0-9]*), from index i
ParseNumber(s, i) ==
  IF s[i] = 45 THEN ParseNumberFrom(s, i + 1, TRUE) ELSE ParseNumberFrom(s, i, FALSE)

ParseLiteral(s, i, word, val) ==
  IF i + Len(word) - 1 <= Len(s) /\ SubSeq(s, i, i + Len(word) - 1) = word
  THEN ParseOk(val, i + Len(word)) ELSE ParseFail

RECURSIVE ParseValue(_, _)
RECURSIVE ParseMembers(_, _, _)
RECURSIVE ParseElements(_, _, _)
\* after a member, at index e: "}" ends the object, "," goes on
MembersEnd(s, e, got) ==
  IF e > Len(s) THEN ParseFail
  ELSE IF s[e] = 125 THEN ParseOk(Obj(got), e + 1)
  ELSE IF s[e] = 44 THEN ParseMembers(s, e + 1, got)
  ELSE ParseFail

\* the member of key k and value v, added to the pairs read
MembersAdd(s, k, v, acc) ==
  IF ~v.ok THEN ParseFail
  ELSE MembersEnd(s, SkipWs(s, v.pos), Append(acc, <<k.val.v, v.val>>))

\* the ":" at index c and the value after it
MembersValue(s, k, c, acc) ==
  IF c > Len(s) \/ s[c] # 58 THEN ParseFail
  ELSE MembersAdd(s, k, ParseValue(s, c + 1), acc)

MembersColon(s, k, acc) ==
  IF ~k.ok THEN ParseFail ELSE MembersValue(s, k, SkipWs(s, k.pos), acc)

MembersKey(s, j, acc) ==
  IF j > Len(s) \/ s[j] # 34 THEN ParseFail
  ELSE MembersColon(s, ParseString(s, j + 1, <<>>), acc)

\* the members of an object from index i (after "{" or ","), acc the pairs read
ParseMembers(s, i, acc) == MembersKey(s, SkipWs(s, i), acc)

\* after an element, at index e: "]" ends the array, "," goes on
ElementsEnd(s, e, got) ==
  IF e > Len(s) THEN ParseFail
  ELSE IF s[e] = 93 THEN ParseOk(Arr(got), e + 1)
  ELSE IF s[e] = 44 THEN ParseElements(s, e + 1, got)
  ELSE ParseFail

ElementsAdd(s, v, acc) ==
  IF ~v.ok THEN ParseFail ELSE ElementsEnd(s, SkipWs(s, v.pos), Append(acc, v.val))

ParseElements(s, i, acc) == ElementsAdd(s, ParseValue(s, i), acc)

\* "{" at index j: the empty object when "}" is at index m, its members otherwise
ParseObject(s, j, m) ==
  IF m <= Len(s) /\ s[m] = 125 THEN ParseOk(Obj(<<>>), m + 1)
  ELSE ParseMembers(s, j + 1, <<>>)

ParseArray(s, j, m) ==
  IF m <= Len(s) /\ s[m] = 93 THEN ParseOk(Arr(<<>>), m + 1)
  ELSE ParseElements(s, j + 1, <<>>)

\* the value that starts at index j
ParseValueAt(s, j) ==
  IF j > Len(s) THEN ParseFail
  ELSE CASE s[j] = 123 -> ParseObject(s, j, SkipWs(s, j + 1))
         [] s[j] = 91 -> ParseArray(s, j, SkipWs(s, j + 1))
         [] s[j] = 34 -> ParseString(s, j + 1, <<>>)
         [] s[j] = 45 \/ IsDigit(s[j]) -> ParseNumber(s, j)
         [] s[j] = 116 -> ParseLiteral(s, j, <<116, 114, 117, 101>>, Bool(TRUE))
         [] s[j] = 102 -> ParseLiteral(s, j, <<102, 97, 108, 115, 101>>, Bool(FALSE))
         [] s[j] = 110 -> ParseLiteral(s, j, <<110, 117, 108, 108>>, Null)
         [] OTHER -> ParseFail

ParseValue(s, i) == ParseValueAt(s, SkipWs(s, i))

\* JSON.parse: [ok |-> FALSE] stands for the SyntaxError it throws
\* the value r read from s, when nothing but white space follows it
ParseWhole(s, r) == IF r.ok /\ SkipWs(s, r.pos) > Len(s) THEN r ELSE ParseFail

JSONParse(s) == ParseWhole(s, ParseValue(s, 1))


(***************************************************************************)
(* Buffer.from(text) (UTF-8), toString('base64'), Buffer.from(token,       *)
(* 'base64') and toString('utf8').                                         *)
(***************************************************************************)
Utf8Char(c) ==
  IF c < 128 THEN <<c>>
  ELSE IF c < 2048 THEN <<192 + (c \div 64), 128 + (c % 64)>>
  ELSE <<224 + (c \div 4096), 128 + ((c \div 64) % 64), 128 + (c % 64)>>

RECURSIVE Utf8Encode(_, _)
Utf8Encode(s, i) == IF i > Len(s) THEN <<>> ELSE Utf8Char(s[i]) \o Utf8Encode(s, i + 1)

IsCont(b) == b >= 128 /\ b < 192

\* an ill-formed byte decodes to U+FFFD
RECURSIVE Utf8Decode(_, _)
Utf8Decode(b, i) ==
  IF i > Len(b) THEN <<>>
  ELSE IF b[i] < 128 THEN <<b[i]>> \o Utf8Decode(b, i + 1)
  ELSE IF b[i] >= 194 /\ b[i] < 224 /\ i + 1 <= Len(b) /\ IsCont(b[i + 1])
       THEN <<(b[i] - 192) * 64 + (b[i + 1] - 128)>> \o Utf8Decode(b, i + 2)
  ELSE IF b[i] >= 224 /\ b[i] < 240 /\ i + 2 <= Len(b) /\ IsCont(b[i + 1]) /\ IsCont(b[i + 2])
          /\ (b[i] - 224) * 4096 + (b[i + 1] - 128) * 64 + (b[i + 2] - 128) >= 2048
       THEN <<(b[i] - 224) * 4096 + (b[i + 1] - 128) * 64 + (b[i + 2] - 128)>>
            \o Utf8Decode(b, i + 3)
  ELSE <<65533>> \o Utf8Decode(b, i + 1)

\* the base64 alphabet
Base64Char(n) ==
  IF n < 26 THEN 65 + n
  ELSE IF n < 52 THEN 71 + n
  ELSE IF n < 62 THEN n - 4
  ELSE IF n = 62 THEN 43 ELSE 47

\* the sextet of a character; -1 for a character outside the alphabet
\* (the decoder also takes the URL-safe "-" and "_")
Unbase64(c) ==
  CASE c >= 65 /\ c <= 90 -> c - 65
    [] c >= 97 /\ c <= 122 -> c - 71
    [] c >= 48 /\ c <= 57 -> c + 4
    [] c = 43 \/ c = 45 -> 62
    [] c = 47 \/ c = 95 -> 63
    [] OTHER -> 0 - 1

RECURSIVE Base64Encode(_, _)
Base64Encode(b, i) ==
     IF Len(b) - i + 1 <= 0 THEN <<>>
     ELSE IF Len(b) - i + 1 = 1 THEN
       <<Base64Char(b[i] \div 4), Base64Char((b[i] % 4) * 16), 61, 61>>
     ELSE IF Len(b) - i + 1 = 2 THEN
       <<Base64Char(b[i] \div 4), Base64Char((b[i] % 4) * 16 + (b[i + 1] \div 16)),
         Base64Char((b[i + 1] % 16) * 4), 61>>
     ELSE
       <<Base64Char(b[i] \div 4), Base64Char((b[i] % 4) * 16 + (b[i + 1] \div 16)),
         Base64Char((b[i + 1] % 16) * 4 + (b[i + 2] \div 64)), Base64Char(b[i + 2] % 64)>>
       \o Base64Encode(b, i + 3)

\* the sextets of a token: characters outside the alphabet are skipped and
\* "=" ends the data
RECURSIVE Sextets(_, _)
Sextets(tok, i) ==
  IF i > Len(tok) \/ tok[i] = 61 THEN <<>>
  ELSE IF Unbase64(tok[i]) < 0 THEN Sextets(tok, i + 1)
  ELSE <<Unbase64(tok[i])>> \o Sextets(tok, i + 1)

RECURSIVE SextetsToBytes(_, _)
SextetsToBytes(x, i) ==
     IF Len(x) - i + 1 <= 1 THEN <<>>
     ELSE IF Len(x) - i + 1 = 2 THEN <<x[i] * 4 + (x[i + 1] \div 16)>>
     ELSE IF Len(x) - i + 1 = 3 THEN
       <<x[i] * 4 + (x[i + 1] \div 16), (x[i + 1] % 16) * 16 + (x[i + 2] \div 4)>>
     ELSE
       <<x[i] * 4 + (x[i + 1] \div 16), (x[i + 1] % 16) * 16 + (x[i + 2] \div 4),
         (x[i + 2] % 4) * 64 + x[i + 3]>>
       \o SextetsToBytes(x, i + 4)

Base64Decode(tok) == SextetsToBytes(Sextets(tok, 1), 1)

(***************************************************************************)
(* The cursor codec of the servers.                                        *)
(***************************************************************************)
\* a mutant: the separator after a member's key is lost in the encoding
encodeCursorNoColon(data) ==
  Str(Base64Encode(Utf8Encode(SelectSeq(JSONStringify(data), LAMBDA c : c # 58), 1), 1))

\* Buffer.from(JSON.stringify(data)).toString('base64')
encodeCursor(data) == Str(Base64Encode(Utf8Encode(JSONStringify(data), 1), 1))

\* a mutant: no catch clause, the exception of JSON.parse leaves decodeCursor
ValueOrThrow(r) == IF r.ok THEN r.val ELSE [t |-> "throw", v |-> 0]

\* the catch clause: null when parsing threw
ValueOrNull(r) == IF r.ok THEN r.val ELSE Null

\* try { JSON.parse(Buffer.from(cursor, 'base64').toString('utf8')) } catch { null }
\* (Buffer.from of a value that is no string throws)
decodeCursor(cursor) ==
  IF cursor.t # "str" THEN Null
  ELSE ValueOrNull(JSONParse(Utf8Decode(Base64Decode(cursor.v), 1)))

\* the gRPC servers' decodeCursor returns null for an empty token first
decodeCursorGrpc(cursor) == IF ~Truthy(cursor) THEN Null ELSE decodeCursor(cursor)


(***************************************************************************)
(* Program constants.                                                      *)
(***************************************************************************)
\* the cap on a page: Math.min(100, ...)
MaxLimit == 100
\* the page size when none is given: ... || 20
DefaultLimit == 20
\* the rows of the servers' table: Array.from({ length: 150 }, ...)
TableSize == 150

(***************************************************************************)
(* The mock database.  A row holds the values the three servers generate   *)
(* from the index i; each server reads them in its own representation      *)
(* (RestField, GqlField, GrpcField).  created_at is the day number of the  *)
(* timestamp: day 2000 - i stands for Date.now() - i * 86400000.           *)
(***************************************************************************)
\* John, Jane, Bob, Alice, Charlie
FirstNames ==
  << <<74, 111, 104, 110>>,
     <<74, 97, 110, 101>>,
     <<66, 111, 98>>,
     <<65, 108, 105, 99, 101>>,
     <<67, 104, 97, 114, 108, 105, 101>> >>

\* Doe, Smith, Johnson, Williams, Brown
LastNames ==
  << <<68, 111, 101>>,
     <<83, 109, 105, 116, 104>>,
     <<74, 111, 104, 110, 115, 111, 110>>,
     <<87, 105, 108, 108, 105, 97, 109, 115>>,
     <<66, 114, 111, 119, 110>> >>

\* Engineering, Sales, Marketing, Support
Departments ==
  << <<69, 110, 103, 105, 110, 101, 101, 114, 105, 110, 103>>,
     <<83, 97, 108, 101, 115>>,
     <<77, 97, 114, 107, 101, 116, 105, 110, 103>>,
     <<83, 117, 112, 112, 111, 114, 116>> >>

\* ACTIVE, INACTIVE, PENDING (the REST server holds them in lower case,
\* the gRPC servers as 1, 2, 3)
StatusNames ==
  << <<65, 67, 84, 73, 86, 69>>,
     <<73, 78, 65, 67, 84, 73, 86, 69>>,
     <<80, 69, 78, 68, 73, 78, 71>> >>

\* ADMIN, USER, MODERATOR
RoleNames ==
  << <<65, 68, 77, 73, 78>>,
     <<85, 83, 69, 82>>,
     <<77, 79, 68, 69, 82, 65, 84, 79, 82>> >>

\* "user"
EmailPrefix == <<117, 115, 101, 114>>

\* "@example.com"
EmailSuffix == <<64, 101, 120, 97, 109, 112, 108, 101, 46, 99, 111, 109>>

\* "id"
KeyId == <<105, 100>>

\* "sort_value"
KeySortValue == <<115, 111, 114, 116, 95, 118, 97, 108, 117, 101>>

\* the row of index i (0-based), as Array.from({ length: 150 }, (_, i) => ...)
MakeUser(i) ==
  [ id |-> i + 1,
    first_name |-> FirstNames[(i % 5) + 1],
    last_name |-> LastNames[(i % 5) + 1],
    email |-> EmailPrefix \o NumberToString(i + 1) \o EmailSuffix,
    age |-> 20 + (i % 40),
    status |-> (i % 3) + 1,
    role |-> (i % 3) + 1,
    created_at |-> 2000 - i,
    department |-> Departments[(i % 4) + 1],
    salary |-> 50000 + (i * 1000) ]

MakeUsers(n) == [k \in 1..n |-> MakeUser(k - 1)]

\* the timestamp text of a day: fixed width, so that text order is time order
\* (as toISOString's)
IsoText(day) == NumberToString(day)

\* new Date(text).getTime(), in days; NaN for a text that is no timestamp
DateValue(text) ==
  IF Len(text) = 4 /\ \A k \in 1..4 : IsDigit(text[k])
  THEN Num(ParseDigits(text, 1, 0).n) ELSE NaN

\* u[field] in the REST server
RestField(u, field) ==
  CASE field = "id" -> Num(u.id)
    [] field = "first_name" -> Str(u.first_name)
    [] field = "last_name" -> Str(u.last_name)
    [] field = "email" -> Str(u.email)
    [] field = "age" -> Num(u.age)
    [] field = "status" -> Str(ToLowerCase(StatusNames[u.status]))
    [] field = "role" -> Str(ToLowerCase(RoleNames[u.role]))
    [] field = "created_at" -> Str(IsoText(u.created_at))
    [] field = "department" -> Str(u.department)
    [] field = "salary" -> Num(u.salary)
    [] OTHER -> Undefined

\* u[field] in the GraphQL servers
GqlField(u, field) ==
  CASE field = "id" -> Str(NumberToString(u.id))
    [] field = "firstName" -> Str(u.first_name)
    [] field = "lastName" -> Str(u.last_name)
    [] field = "email" -> Str(u.email)
    [] field = "age" -> Num(u.age)
    [] field = "status" -> Str(StatusNames[u.status])
    [] field = "role" -> Str(RoleNames[u.role])
    [] field = "createdAt" -> Str(IsoText(u.created_at))
    [] field = "department" -> Str(u.department)
    [] field = "salary" -> Num(u.salary)
    [] OTHER -> Undefined

\* u[field] in the gRPC servers (created_at read as its seconds)
GrpcField(u, field) ==
  CASE field = "id" -> Str(NumberToString(u.id))
    [] field = "first_name" -> Str(u.first_name)
    [] field = "last_name" -> Str(u.last_name)
    [] field = "email" -> Str(u.email)
    [] field = "age" -> Num(u.age)
    [] field = "status" -> Num(u.status)
    [] field = "role" -> Num(u.role)
    [] field = "created_at" -> Num(u.created_at * 86400)
    [] field = "department" -> Str(u.department)
    [] field = "salary" -> Num(u.salary)
    [] OTHER -> Undefined

(***************************************************************************)
(* Numbers, comparison, arrays.                                            *)
(***************************************************************************)
\* parseInt(x): the integer a text starts with, NaN when there is none
\* the digits of s from index j, negated when neg; NaN when there is none
ParseIntDigits(s, j, neg) ==
  IF j > Len(s) \/ ~IsDigit(s[j]) THEN NaN
  ELSE Num((IF neg THEN 0 - 1 ELSE 1) * ParseDigits(s, j, 0).n)

\* the number of s read from index i, where the white space ends
ParseIntFrom(s, i) ==
  IF i <= Len(s) /\ s[i] \in {43, 45} THEN ParseIntDigits(s, i + 1, s[i] = 45)
  ELSE ParseIntDigits(s, i, FALSE)

ParseInt(x) ==
  IF x.t = "num" THEN x
  ELSE IF x.t # "str" THEN NaN
  ELSE ParseIntFrom(x.v, SkipWs(x.v, 1))

\* n when the text is the numeral of n and nothing else, NaN otherwise
WholeNumber(n, text) == IF n.t = "num" /\ NumberToString(n.v) = text THEN n ELSE NaN

\* Number(x) for the operands of < and >
ToNumber(x) ==
  CASE x.t = "num" -> x
    [] x.t = "bool" -> Num(x.v)
    [] x.t = "null" -> Num(0)
    [] x.t = "str" -> (IF x.v = <<>> THEN Num(0) ELSE WholeNumber(ParseInt(x), x.v))
    [] OTHER -> NaN

\* x < y and x <= y on numbers: false when either is NaN
NumLess(x, y) == x.t = "num" /\ y.t = "num" /\ x.v < y.v

NumLessEq(x, y) == x.t = "num" /\ y.t = "num" /\ x.v <= y.v

\* a < b
JsLess(a, b) ==
  IF a.t = "str" /\ b.t = "str" THEN TextLess(a.v, b.v)
  ELSE NumLess(ToNumber(a), ToNumber(b))

\* a <= b
JsLessEq(a, b) ==
  IF a.t = "str" /\ b.t = "str" THEN ~TextLess(b.v, a.v)
  ELSE NumLessEq(ToNumber(a), ToNumber(b))

\* String(x) for a field value
ToText(x) ==
  CASE x.t = "str" -> x.v
    [] x.t = "num" -> NumberToString(x.v)
    [] x.t = "undef" -> <<117, 110, 100, 101, 102, 105, 110, 101, 100>>
    [] OTHER -> <<110, 117, 108, 108>>

\* text.trim()
RECURSIVE TrimLeft(_)
TrimLeft(s) == IF s # <<>> /\ s[1] = 32 THEN TrimLeft(Tail(s)) ELSE s
RECURSIVE TrimRight(_)
TrimRight(s) == IF s # <<>> /\ s[Len(s)] = 32 THEN TrimRight(SubSeq(s, 1, Len(s) - 1)) ELSE s
Trim(s) == TrimRight(TrimLeft(s))

\* text.split(',')
RECURSIVE SplitComma(_, _, _)
SplitComma(s, i, cur) ==
  IF i > Len(s) THEN <<cur>>
  ELSE IF s[i] = 44 THEN <<cur>> \o SplitComma(s, i + 1, <<>>)
  ELSE SplitComma(s, i + 1, Append(cur, s[i]))

\* list.includes(x) for a list of texts
InList(list, x) == \E k \in 1..Len(list) : list[k] = x

\* arr.filter(Pred)
Filter(arr, Pred(_)) == SelectSeq(arr, Pred)

\* Math.ceil(a / b) for a >= 0 and b >= 1
CeilDiv(a, b) == (a + b - 1) \div b

\* arr.slice(start, end): a negative index counts from the end
Slice(arr, start, end) ==
  LET n == Len(arr)
      from == IF start < 0 THEN Max(n + start, 0) ELSE Min(start, n)
      to == IF end < 0 THEN Max(n + end, 0) ELSE Min(end, n)
  IN SubSeq(arr, from + 1, to)

\* arr.findIndex(pred), 0-based, -1 when no element satisfies pred
FindIndex(arr, Pred(_)) ==
  IF \E k \in 1..Len(arr) : Pred(arr[k])
  THEN (CHOOSE k \in 1..Len(arr) : Pred(arr[k]) /\ \A j \in 1..(k - 1) : ~Pred(arr[j])) - 1
  ELSE 0 - 1

\* arr.sort(Cmp) of a copy: the sort is stable, so an element's place is
\* the number of elements that go before it; placed pairs each place with
\* the index of the element that takes it
StableSort(arr, Cmp(_, _)) ==
  LET n == Len(arr)
      placed == {<<1 + Cardinality({j \in 1..n :
                        \/ Cmp(arr[j], arr[i]) < 0
                        \/ Cmp(arr[j], arr[i]) = 0 /\ j < i}), i>> : i \in 1..n}
  IN [k \in 1..n |-> arr[(CHOOSE p \in placed : p[1] = k)[2]]]

Ids(rows) == [k \in 1..Len(rows) |-> rows[k].id]


(***************************************************************************)
(* State.                                                                  *)
(***************************************************************************)
VARIABLES
  users,   \* the mock database: the rows, in array order
  nextId,  \* the id a writer gives the next inserted row
  writes,  \* the writer's steps so far
  req,     \* the request in hand (op = "none": no request yet)
  resp,    \* the response to req
  trail,   \* the client's pagination run that req belongs to
  call     \* the server-streaming call in progress

vars == <<users, nextId, writes, req, resp, trail, call>>

\* a request: every parameter a handler reads, undefined when not sent
NoReq ==
  [ op |-> "none",
    page |-> Undefined, limit |-> Undefined, cursor |-> Undefined,
    sort_by |-> "", sort_order |-> "",
    first |-> Undefined, after |-> Undefined, last |-> Undefined, before |-> Undefined,
    offset |-> Undefined, filter |-> Undefined, sort |-> Undefined,
    page_size |-> Undefined, page_number |-> Undefined, page_token |-> Undefined,
    query |-> Undefined, body |-> Undefined ]

\* res.status(400).json({ success: false, error: { code } }), or a thrown Error
Failure(code) == [ok |-> FALSE, error |-> code, items |-> <<>>]

(***************************************************************************)
(* REST: GET /api/v1/users/offset                                          *)
(***************************************************************************)
\* Math.max(1, parseInt(req.query.page) || 1)
RestPage(q) == Max(1, OrElse(ParseInt(q.page), Num(1)).v)

\* a mutant: the cap on the page size is lost
RestLimitNoCap(q) == Max(1, OrElse(ParseInt(q.limit), Num(DefaultLimit)).v)

\* Math.min(100, Math.max(1, parseInt(req.query.limit) || 20))
RestLimit(q) == Min(MaxLimit, Max(1, OrElse(ParseInt(q.limit), Num(DefaultLimit)).v))

\* a mutant: the window starts one row late
RestOffsetFromPage(page, limit) == page * limit

\* offset = (page - 1) * limit
RestOffset(page, limit) == (page - 1) * limit

\* the page of rows the offset handlers answer with
OffsetAnswer(rows, page, limit) ==
  [ ok |-> TRUE, error |-> "",
    items |-> Ids(Slice(rows, RestOffset(page, limit), RestOffset(page, limit) + limit)),
    page |-> page, limit |-> limit, offset |-> RestOffset(page, limit),
    total_count |-> Len(rows), total_pages |-> CeilDiv(Len(rows), limit),
    has_next |-> page < CeilDiv(Len(rows), limit), has_prev |-> page > 1 ]

GetUsersOffset(q) == OffsetAnswer(users, RestPage(q), RestLimit(q))

(***************************************************************************)
(* REST: GET /api/v1/users/cursor                                          *)
(***************************************************************************)
\* encodeCursor({ id: u.id })
RestCursor(u) == encodeCursor(Obj(<< <<KeyId, Num(u.id)>> >>))

\* a mutant: the page starts at the cursor's row, not after it
RestCursorStartAtCursor(cursorIndex) == cursorIndex

\* startIndex = cursorIndex + 1
RestCursorStart(cursorIndex) == cursorIndex + 1

\* the answer from startIndex: limit + 1 rows are read to learn has_more
CursorAnswer(limit, startIndex, paginatedUsers) ==
  LET hasMore == Len(paginatedUsers) > limit
      results == IF hasMore THEN Slice(paginatedUsers, 0, limit) ELSE paginatedUsers
  IN [ ok |-> TRUE, error |-> "", items |-> Ids(results),
       limit |-> limit, has_more |-> hasMore,
       next |-> IF hasMore THEN RestCursor(results[Len(results)]) ELSE Null,
       prev |-> IF startIndex > 0 THEN RestCursor(users[startIndex]) ELSE Null ]

CursorFrom(limit, startIndex) ==
  CursorAnswer(limit, startIndex, Slice(users, startIndex, startIndex + limit + 1))

\* cursorIndex === -1: 400 CURSOR_NOT_FOUND
CursorLocated(cursor, limit, cursorIndex) ==
  IF ~Truthy(cursor) THEN CursorFrom(limit, 0)
  ELSE IF cursorIndex = 0 - 1 THEN Failure("CURSOR_NOT_FOUND")
  ELSE CursorFrom(limit, RestCursorStart(cursorIndex))

\* !decoded: 400 INVALID_CURSOR
CursorDecoded(cursor, limit, decoded) ==
  IF Truthy(cursor) /\ ~Truthy(decoded) THEN Failure("INVALID_CURSOR")
  ELSE CursorLocated(cursor, limit,
         FindIndex(users, LAMBDA u : StrictEq(Num(u.id), Get(decoded, KeyId))))

GetUsersCursor(q) == CursorDecoded(q.cursor, RestLimit(q), decodeCursor(q.cursor))

(***************************************************************************)
(* REST: GET /api/v1/users/cursor-sorted                                   *)
(* sort_by and sort_order are read as names; "" stands for a parameter     *)
(* that was not sent.                                                      *)
(***************************************************************************)
\* a < b ? -1 : a > b ? 1 : 0
Compare(aVal, bVal) ==
  IF JsLess(aVal, bVal) THEN 0 - 1 ELSE IF JsLess(bVal, aVal) THEN 1 ELSE 0

\* isDesc ? -comparison : comparison
Directed(comparison, isDesc) == IF isDesc THEN 0 - comparison ELSE comparison

\* (a, b) => sortOrder === 'desc' ? -comparison : comparison
CursorSortedCmp(a, b, sortBy, sortOrder) ==
  Directed(Compare(RestField(a, sortBy), RestField(b, sortBy)), sortOrder = "desc")

\* the findIndex predicate on the compound key: val the row's sort value,
\* id its id, cur and curId the cursor's
AfterKey(val, id, cur, curId, sortOrder) ==
  IF sortOrder = "desc"
  THEN JsLess(val, cur) \/ (StrictEq(val, cur) /\ JsLess(id, curId))
  ELSE JsLess(cur, val) \/ (StrictEq(val, cur) /\ JsLess(curId, id))

CursorSortedAfter(u, decoded, sortBy, sortOrder) ==
  AfterKey(RestField(u, sortBy), Num(u.id),
           Get(decoded, KeySortValue), Get(decoded, KeyId), sortOrder)

\* encodeCursor({ sort_value: u[sortBy], id: u.id })
SortedCursor(u, sortBy) ==
  encodeCursor(Obj(<< <<KeySortValue, RestField(u, sortBy)>>, <<KeyId, Num(u.id)>> >>))

SortedAnswer(limit, sortBy, sortOrder, paginatedUsers) ==
  LET hasMore == Len(paginatedUsers) > limit
      results == IF hasMore THEN Slice(paginatedUsers, 0, limit) ELSE paginatedUsers
  IN [ ok |-> TRUE, error |-> "", items |-> Ids(results),
       limit |-> limit, has_more |-> hasMore,
       sort_by |-> sortBy, sort_order |-> sortOrder,
       next |-> IF hasMore /\ Len(results) > 0
                THEN SortedCursor(results[Len(results)], sortBy) ELSE Null ]

\* startIndex = found === -1 ? sortedUsers.length : found
SortedFrom(limit, sortBy, sortOrder, sortedUsers, found) ==
  LET startIndex == IF found = 0 - 1 THEN Len(sortedUsers) ELSE found
  IN SortedAnswer(limit, sortBy, sortOrder,
                  Slice(sortedUsers, startIndex, startIndex + limit + 1))

SortedDecoded(cursor, limit, sortBy, sortOrder, sortedUsers, decoded) ==
  IF ~Truthy(cursor) THEN SortedAnswer(limit, sortBy, sortOrder, Slice(sortedUsers, 0, limit + 1))
  ELSE IF ~Truthy(decoded) THEN Failure("INVALID_CURSOR")
  ELSE SortedFrom(limit, sortBy, sortOrder, sortedUsers,
         FindIndex(sortedUsers, LAMBDA u : CursorSortedAfter(u, decoded, sortBy, sortOrder)))

\* the handler once sort_by = 'created_at' and sort_order = 'desc' stand in
\* for the parameters not sent
SortedBy(q, sortBy, sortOrder) ==
  SortedDecoded(q.cursor, RestLimit(q), sortBy, sortOrder,
                StableSort(users, LAMBDA a, b : CursorSortedCmp(a, b, sortBy, sortOrder)),
                decodeCursor(q.cursor))

GetUsersCursorSorted(q) ==
  SortedBy(q, IF q.sort_by = "" THEN "created_at" ELSE q.sort_by,
              IF q.sort_order = "" THEN "desc" ELSE q.sort_order)


(***************************************************************************)
(* REST: GET /api/v1/users (filtering + sorting + offset pagination)       *)
(* The filter parameters are req.filter, a record of the query's values;   *)
(* req.sort is the list of sort fields, each [prefix, name] for            *)
(* "-name", "+name" or "name".                                             *)
(***************************************************************************)
NoQuery ==
  [ status |-> Undefined, role |-> Undefined, department |-> Undefined,
    age_min |-> Undefined, age_max |-> Undefined,
    created_after |-> Undefined, created_before |-> Undefined,
    salary_gte |-> Undefined, salary_lte |-> Undefined,
    statuses |-> Undefined, departments |-> Undefined,
    search |-> Undefined, q |-> Undefined, email_contains |-> Undefined,
    fields |-> Undefined ]

\* if (param) rows = rows.filter(...): the test a row must pass
When(param, passes) == ~Truthy(param) \/ passes

\* text.split(',').map(s => s.trim()).includes(x)
InCommaList(text, x) ==
  \E k \in 1..Len(SplitComma(text, 1, <<>>)) : Trim(SplitComma(text, 1, <<>>)[k]) = x

\* the search of a term in the name and email of a row
MatchesTerm(u, term) ==
  \/ Includes(ToLowerCase(u.first_name), term)
  \/ Includes(ToLowerCase(u.last_name), term)
  \/ Includes(ToLowerCase(u.email), term)

\* whether the row u is left by the filters of the query f, which the
\* handler applies one after the other
RestMatches(u, f) ==
  /\ When(f.status, StrictEq(RestField(u, "status"), f.status))
  /\ When(f.role, StrictEq(RestField(u, "role"), f.role))
  /\ When(f.department, StrictEq(RestField(u, "department"), f.department))
  /\ When(f.age_min, JsLessEq(ParseInt(f.age_min), Num(u.age)))
  /\ When(f.age_max, JsLessEq(Num(u.age), ParseInt(f.age_max)))
  /\ When(f.created_after,
          JsLessEq(DateValue(f.created_after.v), DateValue(IsoText(u.created_at))))
  /\ When(f.created_before,
          JsLessEq(DateValue(IsoText(u.created_at)), DateValue(f.created_before.v)))
  /\ When(f.salary_gte, JsLessEq(ParseInt(f.salary_gte), Num(u.salary)))
  /\ When(f.salary_lte, JsLessEq(Num(u.salary), ParseInt(f.salary_lte)))
  /\ When(f.statuses, InCommaList(f.statuses.v, RestField(u, "status").v))
  /\ When(f.departments, InCommaList(f.departments.v, u.department))
  /\ When(OrElse(f.search, f.q), MatchesTerm(u, ToLowerCase(OrElse(f.search, f.q).v)))
  /\ When(f.email_contains,
          Includes(ToLowerCase(u.email), ToLowerCase(f.email_contains.v)))

RestQueryFilter(rows, f) == Filter(rows, LAMBDA u : RestMatches(u, f))

\* typeof aVal === 'string' ? aVal.toLowerCase() : aVal
LowerIfText(x) == IF x.t = "str" THEN Str(ToLowerCase(x.v)) ELSE x

\* the comparison of one sort field when it decides, the next field's otherwise
ThenBy(comparison, isDesc, next) ==
  IF comparison # 0 THEN Directed(comparison, isDesc) ELSE next

\* the comparator of req.query.sort.split(','), from field k on
RECURSIVE RestSortCmp(_, _, _, _)
RestSortCmp(a, b, sortFields, k) ==
  IF k > Len(sortFields) THEN 0
  ELSE ThenBy(Compare(LowerIfText(RestField(a, sortFields[k].name)),
                      LowerIfText(RestField(b, sortFields[k].name))),
              sortFields[k].prefix = "-",
              RestSortCmp(a, b, sortFields, k + 1))

\* the rows in the order of req.query.sort
RestSorted(rows, sortFields) ==
  IF sortFields # <<>>
  THEN StableSort(rows, LAMBDA a, b : RestSortCmp(a, b, sortFields, 1))
  ELSE rows

\* the answer of the handler: the page r and the meta of the query
UsersAnswer(r, fields) ==
  [ ok |-> TRUE, error |-> "", items |-> r.items, fields_selected |-> fields,
    page |-> r.page, limit |-> r.limit,
    total_count |-> r.total_count, total_pages |-> r.total_pages,
    has_next |-> r.has_next, has_prev |-> r.has_prev ]

GetUsers(q) ==
  UsersAnswer(OffsetAnswer(RestSorted(RestQueryFilter(users, q.filter), q.sort),
                           RestPage(q), RestLimit(q)),
              q.filter.fields)

(***************************************************************************)
(* REST: POST /api/v1/users/search (filter object)                         *)
(* req.body is [filters, sort, pagination]: filters the list of            *)
(* [field, operator, value] in the order Object.entries gives them, sort   *)
(* the list of [field, order], pagination [page, limit].                   *)
(***************************************************************************)
\* value.includes(x): an array's or a string's; no other value has the method
HasIncludes(value) == value.t \in {"arr", "str"}

ValueIncludes(value, x) ==
  IF value.t = "arr" THEN \E k \in 1..Len(value.v) : StrictEq(value.v[k], x)
  ELSE Includes(value.v, ToText(x))

\* whether evaluating the operator's predicate on a row throws a TypeError
LeafThrows(operator, value) ==
  CASE operator \in {"in", "nin"} -> ~HasIncludes(value)
    [] operator \in {"contains", "starts_with"} -> value.t # "str"
    [] OTHER -> FALSE

\* the predicate of one operator on a row's field value
LeafMatches(x, operator, value) ==
  CASE operator = "eq" -> StrictEq(x, value)
    [] operator = "neq" -> ~StrictEq(x, value)
    [] operator = "gt" -> JsLess(value, x)
    [] operator = "gte" -> JsLessEq(value, x)
    [] operator = "lt" -> JsLess(x, value)
    [] operator = "lte" -> JsLessEq(x, value)
    [] operator = "in" -> ValueIncludes(value, x)
    [] operator = "nin" -> ~ValueIncludes(value, x)
    [] operator = "contains" -> Includes(ToLowerCase(ToText(x)), ToLowerCase(value.v))
    [] operator = "starts_with" -> StartsWith(ToLowerCase(ToText(x)), ToLowerCase(value.v))
    [] OTHER -> TRUE

SearchOperators ==
  {"eq", "neq", "gt", "gte", "lt", "lte", "in", "nin", "contains", "starts_with"}

\* the filters applied in turn from leaf k; thrown when a predicate threw
\* (a predicate runs only when a row is left to test)
RECURSIVE ApplyLeaves(_, _, _)
ApplyLeaves(rows, leaves, k) ==
  IF k > Len(leaves) THEN [thrown |-> FALSE, rows |-> rows]
  ELSE IF leaves[k].operator \notin SearchOperators THEN ApplyLeaves(rows, leaves, k + 1)
  ELSE IF rows # <<>> /\ LeafThrows(leaves[k].operator, leaves[k].value)
       THEN [thrown |-> TRUE, rows |-> <<>>]
  ELSE ApplyLeaves(
         Filter(rows, LAMBDA u : LeafMatches(RestField(u, leaves[k].field),
                                             leaves[k].operator, leaves[k].value)),
         leaves, k + 1)

RECURSIVE SearchSortCmp(_, _, _, _)
SearchSortCmp(a, b, sort, k) ==
  IF k > Len(sort) THEN 0
  ELSE ThenBy(Compare(RestField(a, sort[k].field), RestField(b, sort[k].field)),
              sort[k].order = "desc",
              SearchSortCmp(a, b, sort, k + 1))

SearchSorted(rows, sort) ==
  IF Len(sort) > 0 THEN StableSort(rows, LAMBDA a, b : SearchSortCmp(a, b, sort, 1)) ELSE rows

\* the answer of the handler for the page r
SearchAnswer(r) ==
  [ ok |-> TRUE, error |-> "", items |-> r.items, page |-> r.page, limit |-> r.limit,
    total_count |-> r.total_count, total_pages |-> r.total_pages ]

\* an uncaught TypeError of a filter is the framework's error response
SearchFiltered(body, filtered) ==
  IF filtered.thrown THEN Failure("TypeError")
  ELSE SearchAnswer(OffsetAnswer(SearchSorted(filtered.rows, body.sort),
         Max(1, OrElse(body.pagination.page, Num(1)).v),
         Min(MaxLimit, Max(1, OrElse(body.pagination.limit, Num(DefaultLimit)).v))))

PostUsersSearch(q) == SearchFiltered(q.body, ApplyLeaves(users, q.body.filters, 1))


(***************************************************************************)
(* GraphQL server: filters and sorting.                                    *)
(* A UserFilter is a record of its members (undefined when not given);     *)
(* its or / and members are arrays of UserFilter.                          *)
(***************************************************************************)
NoFilter ==
  [ status |-> Undefined, statusIn |-> Undefined, role |-> Undefined,
    department |-> Undefined, departmentIn |-> Undefined,
    ageGte |-> Undefined, ageLte |-> Undefined, ageEq |-> Undefined,
    salaryGte |-> Undefined, salaryLte |-> Undefined,
    createdAfter |-> Undefined, createdBefore |-> Undefined,
    search |-> Undefined, emailContains |-> Undefined,
    or |-> Undefined, and |-> Undefined ]

\* an argument that was not given
Absent(x) == "t" \in DOMAIN x /\ x.t = "undef"

\* if (param !== undefined) rows = rows.filter(...): the test a row must pass
WhenGiven(param, passes) == param.t = "undef" \/ passes

\* whether the row u is left by the member filters of f, which applyFilters
\* applies one after the other
GqlMatches(u, f) ==
  /\ When(f.status, StrictEq(GqlField(u, "status"), f.status))
  /\ When(f.statusIn, ValueIncludes(f.statusIn, GqlField(u, "status")))
  /\ When(f.role, StrictEq(GqlField(u, "role"), f.role))
  /\ When(f.department, StrictEq(GqlField(u, "department"), f.department))
  /\ When(f.departmentIn, ValueIncludes(f.departmentIn, GqlField(u, "department")))
  /\ WhenGiven(f.ageGte, JsLessEq(f.ageGte, Num(u.age)))
  /\ WhenGiven(f.ageLte, JsLessEq(Num(u.age), f.ageLte))
  /\ WhenGiven(f.ageEq, StrictEq(Num(u.age), f.ageEq))
  /\ WhenGiven(f.salaryGte, JsLessEq(f.salaryGte, Num(u.salary)))
  /\ WhenGiven(f.salaryLte, JsLessEq(Num(u.salary), f.salaryLte))
  /\ When(f.createdAfter,
          JsLessEq(DateValue(f.createdAfter.v), DateValue(IsoText(u.created_at))))
  /\ When(f.createdBefore,
          JsLessEq(DateValue(IsoText(u.created_at)), DateValue(f.createdBefore.v)))
  /\ When(f.search, MatchesTerm(u, ToLowerCase(f.search.v)))
  /\ When(f.emailContains, Includes(ToLowerCase(u.email), ToLowerCase(f.emailContains.v)))

\* orIds.has(u.id) for the ids of rows
HasId(rows, u) == \E j \in 1..Len(rows) : rows[j].id = u.id

RECURSIVE applyFilters(_, _)
RECURSIVE ApplyAnd(_, _, _)
\* a mutant: filter.and is not looked at
ApplyAndIgnored(result, fs, k) == result

\* for (const f of filter.and) result = applyFilters(result, f), from f number k
\* (nothing to do when filter.and is absent or empty)
ApplyAnd(result, fs, k) ==
  IF ~Truthy(fs) \/ k > Len(fs.v) THEN result
  ELSE ApplyAnd(applyFilters(result, fs.v[k]), fs, k + 1)

\* a mutant: a branch of filter.or is applied to what the branch before it
\* left, so that only the rows of the first branch are in orIds
ApplyOrOnSiblings(userList, fs) ==
  IF Truthy(fs) /\ Len(fs.v) > 0
  THEN Filter(userList, LAMBDA u : HasId(applyFilters(userList, fs.v[1]), u))
  ELSE userList

\* the rows of userList that some filter of fs leaves, under
\* if (filter.or && filter.or.length > 0)
ApplyOr(userList, fs) ==
  IF Truthy(fs) /\ Len(fs.v) > 0
  THEN Filter(userList,
              LAMBDA u : \E k \in 1..Len(fs.v) : HasId(applyFilters(userList, fs.v[k]), u))
  ELSE userList

applyFilters(userList, filter) ==
  IF Absent(filter) THEN userList
  ELSE Filter(ApplyAnd(ApplyOr(userList, filter.or), filter.and, 1),
              LAMBDA u : GqlMatches(u, filter))

\* fieldMap[sort.field] || 'createdAt'
GqlSortField(name) ==
  CASE name = "CREATED_AT" -> "createdAt"
    [] name = "FIRST_NAME" -> "firstName"
    [] name = "LAST_NAME" -> "lastName"
    [] name = "EMAIL" -> "email"
    [] name = "AGE" -> "age"
    [] name = "SALARY" -> "salary"
    [] OTHER -> "createdAt"

GqlSortCmp(a, b, sort) ==
  Directed(Compare(LowerIfText(GqlField(a, GqlSortField(sort.field))),
                   LowerIfText(GqlField(b, GqlSortField(sort.field)))),
           sort.order = "DESC")

applySorting(userList, sort) ==
  IF Absent(sort) THEN userList
  ELSE StableSort(userList, LAMBDA a, b : GqlSortCmp(a, b, sort))

(***************************************************************************)
(* GraphQL server: Query.usersOffset and Query.users.                      *)
(***************************************************************************)
\* Math.ceil(a / b) for b # 0
CeilQuot(a, b) == IF b > 0 THEN 0 - ((0 - a) \div b) ELSE 0 - (a \div (0 - b))

\* Math.floor(a / b) for b # 0
FloorQuot(a, b) == IF b > 0 THEN a \div b ELSE (0 - a) \div (0 - b)

\* { limit = 20, offset = 0 }: the default stands in for undefined only
GqlDefault(x, d) == IF x.t = "undef" THEN d ELSE x.v

\* the end of slice(offset, offset + limit)
GqlOffsetEnd(offset, limit) == offset + limit

\* with limit 0 the page counts are Infinity or NaN, which the Int! members
\* of OffsetPageInfo cannot carry: the query fails
UsersOffsetAnswer(filteredUsers, limit, offset) ==
  IF limit = 0 THEN Failure("INT_NOT_FINITE")
  ELSE [ ok |-> TRUE, error |-> "",
         items |-> Ids(Slice(filteredUsers, offset, GqlOffsetEnd(offset, limit))),
         limit |-> limit, offset |-> offset, total_count |-> Len(filteredUsers),
         total_pages |-> CeilQuot(Len(filteredUsers), limit),
         page |-> FloorQuot(offset, limit) + 1,
         has_next |-> offset + limit < Len(filteredUsers),
         has_prev |-> offset > 0 ]

Query_usersOffset(q) ==
  UsersOffsetAnswer(applySorting(applyFilters(users, q.filter), q.sort),
                    GqlDefault(q.limit, DefaultLimit), GqlDefault(q.offset, 0))

\* encodeCursor({ id: user.id }) of the GraphQL servers, whose ids are text
GqlCursor(u) == encodeCursor(Obj(<< <<KeyId, GqlField(u, "id")>> >>))

\* findIndex(u => u.id === decoded.id) under if (cursor) and if (decoded);
\* -1 when either test fails or no row has the id
GqlIndexOf(rows, cursor, decoded) ==
  IF Truthy(cursor) /\ Truthy(decoded)
  THEN FindIndex(rows, LAMBDA u : StrictEq(GqlField(u, "id"), Get(decoded, KeyId)))
  ELSE 0 - 1

GqlCursorIndex(rows, cursor) == GqlIndexOf(rows, cursor, decodeCursor(cursor))

\* a mutant: the 'before' cursor's row is kept in the window
GqlEndIndexInclusive(beforeIndex, length) ==
  IF beforeIndex # 0 - 1 THEN beforeIndex + 1 ELSE length

\* endIndex = beforeIndex when the 'before' cursor names a row
GqlEndIndex(beforeIndex, length) ==
  IF beforeIndex # 0 - 1 THEN beforeIndex ELSE length

\* a mutant: the window starts at the 'after' cursor's row
GqlStartIndexAtCursor(afterIndex) ==
  IF afterIndex # 0 - 1 THEN afterIndex ELSE 0

\* startIndex = afterIndex + 1 when the 'after' cursor names a row
GqlStartIndex(afterIndex) ==
  IF afterIndex # 0 - 1 THEN afterIndex + 1 ELSE 0

\* Math.min(limit, maxLimit)
GqlActualLimit(limit) == Min(limit, MaxLimit)

\* the cursors of the edges: map(user => ({ cursor: encodeCursor({ id: user.id }), node: user }))
EdgeCursors(rows) == [k \in 1..Len(rows) |-> GqlCursor(rows[k])]

\* a mutant: endCursor is taken from the first edge
EndCursorOfFirstEdge(cursors) == IF Len(cursors) > 0 THEN cursors[1] ELSE Null

\* edges.length > 0 ? edges[0].cursor : null
StartCursor(cursors) == IF Len(cursors) > 0 THEN cursors[1] ELSE Null

\* edges.length > 0 ? edges[edges.length - 1].cursor : null
EndCursor(cursors) == IF Len(cursors) > 0 THEN cursors[Len(cursors)] ELSE Null

\* the connection object with its edges' cursors
ConnectionPage(backward, total, startIndex, endIndex, sliced, actualLimit, edges, cursors) ==
  [ ok |-> TRUE, error |-> "", items |-> Ids(edges), limit |-> actualLimit,
    has_next |-> IF backward THEN endIndex < total ELSE sliced > actualLimit,
    has_prev |-> IF backward THEN sliced > actualLimit ELSE startIndex > 0,
    cursors |-> cursors,
    startCursor |-> StartCursor(cursors),
    endCursor |-> EndCursor(cursors),
    total_count |-> total ]

\* the connection object; backward when only 'last' was given
ConnectionAnswer(backward, total, startIndex, endIndex, sliced, actualLimit, edges) ==
  ConnectionPage(backward, total, startIndex, endIndex, sliced, actualLimit, edges,
                 EdgeCursors(edges))

\* a mutant: the first rows of the window are taken, whatever the direction
ConnectionEdgesFromStart(backward, total, startIndex, endIndex, slicedUsers, actualLimit) ==
  ConnectionAnswer(backward, total, startIndex, endIndex, Len(slicedUsers), actualLimit,
    Slice(slicedUsers, 0, actualLimit))

\* slicedUsers.slice(startSlice) when backward, slicedUsers.slice(0, actualLimit)
\* otherwise
ConnectionEdges(backward, total, startIndex, endIndex, slicedUsers, actualLimit) ==
  ConnectionAnswer(backward, total, startIndex, endIndex, Len(slicedUsers), actualLimit,
    IF backward
    THEN Slice(slicedUsers, Max(0, Len(slicedUsers) - actualLimit), Len(slicedUsers))
    ELSE Slice(slicedUsers, 0, actualLimit))

ConnectionWindow(q, filteredUsers, startIndex, endIndex) ==
  ConnectionEdges(q.first.t = "undef" /\ q.last.t # "undef", Len(filteredUsers),
    startIndex, endIndex, Slice(filteredUsers, startIndex, endIndex),
    GqlActualLimit(OrElse(q.first, OrElse(q.last, Num(DefaultLimit))).v))

Connection(q, filteredUsers) ==
  ConnectionWindow(q, filteredUsers,
    GqlStartIndex(GqlCursorIndex(filteredUsers, q.after)),
    GqlEndIndex(GqlCursorIndex(filteredUsers, q.before), Len(filteredUsers)))

Query_users(q) ==
  IF q.first.t # "undef" /\ q.last.t # "undef" THEN Failure("BOTH_FIRST_AND_LAST")
  ELSE IF q.first.t # "undef" /\ JsLess(q.first, Num(0)) THEN Failure("FIRST_NOT_POSITIVE")
  ELSE IF q.last.t # "undef" /\ JsLess(q.last, Num(0)) THEN Failure("LAST_NOT_POSITIVE")
  ELSE Connection(q, applySorting(applyFilters(users, q.filter), q.sort))

(***************************************************************************)
(* GraphQL server, first version: Query.users(first, after).               *)
(***************************************************************************)
FirstPageInfo(limit, startIndex, hasNextPage, results, cursors) ==
  [ ok |-> TRUE, error |-> "", items |-> Ids(results),
    limit |-> limit, has_next |-> hasNextPage, has_prev |-> startIndex > 0,
    cursors |-> cursors,
    startCursor |-> StartCursor(cursors),
    endCursor |-> EndCursor(cursors),
    total_count |-> Len(users) ]

FirstAnswer(limit, startIndex, hasNextPage, results) ==
  FirstPageInfo(limit, startIndex, hasNextPage, results, EdgeCursors(results))

\* slicedUsers holds limit + 1 rows when there is a next page
FirstSliced(limit, startIndex, slicedUsers) ==
  FirstAnswer(limit, startIndex, Len(slicedUsers) > limit,
    IF Len(slicedUsers) > limit THEN Slice(slicedUsers, 0, limit) ELSE slicedUsers)

FirstFrom(limit, startIndex) ==
  FirstSliced(limit, startIndex, Slice(users, startIndex, startIndex + limit + 1))

Query_users_v1(q) ==
  FirstFrom(Min(OrElse(q.first, Num(DefaultLimit)).v, MaxLimit),
            GqlStartIndex(GqlCursorIndex(users, q.after)))


(***************************************************************************)
(* gRPC server: filters, sorting and the search score.                     *)
(* A UserFilter is a record of its members; a wrapper member (age_min...)  *)
(* is null or an object with a "value" member.                             *)
(***************************************************************************)
\* "value"
KeyValue == <<118, 97, 108, 117, 101>>

NoGrpcFilter ==
  [ status |-> Num(0), statuses |-> Arr(<<>>), role |-> Num(0),
    department |-> Str(<<>>), departments |-> Arr(<<>>),
    age_min |-> Null, age_max |-> Null, age_eq |-> Null,
    salary_min |-> Null, salary_max |-> Null,
    search |-> Str(<<>>), email_contains |-> Str(<<>>), ids |-> Arr(<<>>) ]

\* filter.x && filter.x.value !== undefined
HasValue(w) == Truthy(w) /\ Get(w, KeyValue).t # "undef"

\* filter.xs && filter.xs.length > 0
NonEmptyList(xs) == xs.t = "arr" /\ Len(xs.v) > 0

\* whether the row u is left by the filters of f, which applyFilters applies
\* one after the other
GrpcMatches(u, f) ==
  /\ When(f.status, StrictEq(Num(u.status), f.status))
  /\ NonEmptyList(f.statuses) => ValueIncludes(f.statuses, Num(u.status))
  /\ When(f.role, StrictEq(Num(u.role), f.role))
  /\ When(f.department, StrictEq(Str(u.department), f.department))
  /\ NonEmptyList(f.departments) => ValueIncludes(f.departments, Str(u.department))
  /\ HasValue(f.age_min) => JsLessEq(Get(f.age_min, KeyValue), Num(u.age))
  /\ HasValue(f.age_max) => JsLessEq(Num(u.age), Get(f.age_max, KeyValue))
  /\ HasValue(f.age_eq) => StrictEq(Num(u.age), Get(f.age_eq, KeyValue))
  /\ HasValue(f.salary_min) => JsLessEq(Get(f.salary_min, KeyValue), Num(u.salary))
  /\ HasValue(f.salary_max) => JsLessEq(Num(u.salary), Get(f.salary_max, KeyValue))
  /\ When(f.search, MatchesTerm(u, ToLowerCase(f.search.v)))
  /\ When(f.email_contains,
          Includes(ToLowerCase(u.email), ToLowerCase(f.email_contains.v)))
  /\ NonEmptyList(f.ids) => ValueIncludes(f.ids, GrpcField(u, "id"))

applyFiltersGrpc(userList, filter) ==
  IF Absent(filter) THEN userList
  ELSE Filter(userList, LAMBDA u : GrpcMatches(u, filter))

\* fieldMap[sort.field]; "" for a number the map does not hold
GrpcSortField(n) ==
  CASE n = 1 -> "created_at"
    [] n = 2 -> "first_name"
    [] n = 3 -> "last_name"
    [] n = 4 -> "email"
    [] n = 5 -> "age"
    [] n = 6 -> "salary"
    [] OTHER -> ""

GrpcSortCmp(a, b, sort) ==
  Directed(Compare(LowerIfText(GrpcField(a, GrpcSortField(sort.field))),
                   LowerIfText(GrpcField(b, GrpcSortField(sort.field)))),
           sort.order = 2)

applySortingGrpc(userList, sort) ==
  IF Absent(sort) \/ sort.field = 0 \/ GrpcSortField(sort.field) = "" THEN userList
  ELSE StableSort(userList, LAMBDA a, b : GrpcSortCmp(a, b, sort))

\* the score of a user whose lower-cased email, full name, first name and
\* last name are given, for the lower-cased term
ScoreOf(email, fullName, first, last, term) ==
  (IF email = term THEN 100 ELSE IF Includes(email, term) THEN 30 ELSE 0)
  + (IF fullName = term THEN 80 ELSE IF Includes(fullName, term) THEN 40 ELSE 0)
  + (IF StartsWith(first, term) THEN 20 ELSE 0)
  + (IF StartsWith(last, term) THEN 20 ELSE 0)

calculateSearchScore(user, query) ==
  ScoreOf(ToLowerCase(user.email),
          ToLowerCase(user.first_name \o <<32>> \o user.last_name),
          ToLowerCase(user.first_name), ToLowerCase(user.last_name),
          ToLowerCase(query))

(***************************************************************************)
(* gRPC server: ListUsersOffset, ListUsersCursor, SearchUsers, and the     *)
(* first version's ListUsers.                                              *)
(***************************************************************************)
\* { page_size = 20 }; Math.min(100, Math.max(1, page_size))
GrpcLimit(q) == Min(MaxLimit, Max(1, GqlDefault(q.page_size, DefaultLimit)))

\* has_next_page: page < totalPages
GrpcHasNext(page, limit, totalCount) == page < CeilDiv(totalCount, limit)

GrpcOffsetAnswer(filteredUsers, page, limit) ==
  [ ok |-> TRUE, error |-> "",
    items |-> Ids(Slice(filteredUsers, (page - 1) * limit, (page - 1) * limit + limit)),
    page |-> page, limit |-> limit, offset |-> (page - 1) * limit,
    total_count |-> Len(filteredUsers),
    total_pages |-> CeilDiv(Len(filteredUsers), limit),
    has_next |-> GrpcHasNext(page, limit, Len(filteredUsers)),
    has_prev |-> page > 1 ]

ListUsersOffset(q) ==
  GrpcOffsetAnswer(applySortingGrpc(applyFiltersGrpc(users, q.filter), q.sort),
                   Max(1, GqlDefault(q.page_number, 1)), GrpcLimit(q))

\* a mutant: the page starts at the token's row
GrpcStartAtToken(cursorIndex) == IF cursorIndex # 0 - 1 THEN cursorIndex ELSE 0

\* startIndex = cursorIndex + 1 when the token names a row
GrpcStart(cursorIndex) == IF cursorIndex # 0 - 1 THEN cursorIndex + 1 ELSE 0

\* findIndex(u => u.id === decoded.id) under if (page_token) and if (decoded)
GrpcIndexOf(rows, token, decoded) ==
  IF Truthy(token) /\ Truthy(decoded)
  THEN FindIndex(rows, LAMBDA u : StrictEq(GrpcField(u, "id"), Get(decoded, KeyId)))
  ELSE 0 - 1

GrpcCursorIndex(rows, token) == GrpcIndexOf(rows, token, decodeCursorGrpc(token))

\* encodeCursor({ id: results[results.length - 1].id })
GrpcToken(u) == encodeCursor(Obj(<< <<KeyId, GrpcField(u, "id")>> >>))

GrpcPageAnswer(total, limit, hasMore, results) ==
  [ ok |-> TRUE, error |-> "", items |-> Ids(results), limit |-> limit,
    next |-> IF hasMore /\ Len(results) > 0 THEN GrpcToken(results[Len(results)])
             ELSE Str(<<>>),
    has_more |-> hasMore, total_count |-> total ]

\* a mutant: a page that takes the last rows announces one more
GrpcPageOfFull(total, limit, pageUsers) ==
  GrpcPageAnswer(total, limit, Len(pageUsers) >= limit,
    IF Len(pageUsers) > limit THEN Slice(pageUsers, 0, limit) ELSE pageUsers)

\* pageUsers holds limit + 1 rows when there are more
GrpcPageOf(total, limit, pageUsers) ==
  GrpcPageAnswer(total, limit, Len(pageUsers) > limit,
    IF Len(pageUsers) > limit THEN Slice(pageUsers, 0, limit) ELSE pageUsers)

GrpcPageFrom(rows, limit, startIndex) ==
  GrpcPageOf(Len(rows), limit, Slice(rows, startIndex, startIndex + limit + 1))

\* the page of rows a page_token leads to
GrpcCursorPage(rows, token, limit) ==
  GrpcPageFrom(rows, limit, GrpcStart(GrpcCursorIndex(rows, token)))

ListUsersCursor(q) ==
  GrpcCursorPage(applySortingGrpc(applyFiltersGrpc(users, q.filter), q.sort),
                 q.page_token, GrpcLimit(q))

\* the rows with a positive score, best score first
Ranked(rows, query) ==
  StableSort(Filter(rows, LAMBDA u : calculateSearchScore(u, query) > 0),
             LAMBDA a, b : calculateSearchScore(b, query) - calculateSearchScore(a, query))

\* if (sort && sort.field) searchResults = applySorting(...)
SearchSortedGrpc(searchResults, sort) ==
  IF ~Absent(sort) /\ sort.field # 0 THEN applySortingGrpc(searchResults, sort)
  ELSE searchResults

\* a mutant: every result carries the score of the best result
ResultScoreOfBest(searchResults, q, id) ==
  IF Truthy(q.query) THEN calculateSearchScore(searchResults[1], q.query.v) ELSE 1

\* the score of searchResults.find(r => r.user.id === user.id): the one its
\* record was given in the map, calculateSearchScore(user, query) or 1
ResultScore(searchResults, q, id) ==
  IF Truthy(q.query)
  THEN calculateSearchScore(
         searchResults[CHOOSE k \in 1..Len(searchResults) :
                         /\ searchResults[k].id = id
                         /\ \A j \in 1..(k - 1) : searchResults[j].id # id],
         q.query.v)
  ELSE 1

\* the page of results, each with its user and score
SearchScored(page, q, searchResults) ==
  [ ok |-> page.ok, error |-> page.error, items |-> page.items, limit |-> page.limit,
    next |-> page.next, has_more |-> page.has_more, total_count |-> page.total_count,
    scores |-> [k \in 1..Len(page.items) |-> ResultScore(searchResults, q, page.items[k])] ]

SearchPage(q, searchResults) ==
  SearchScored(GrpcCursorPage(SearchSortedGrpc(searchResults, q.sort),
                              q.page_token, GrpcLimit(q)),
               q, searchResults)

SearchRanked(q, filteredUsers) ==
  SearchPage(q, IF Truthy(q.query) THEN Ranked(filteredUsers, q.query.v) ELSE filteredUsers)

SearchUsers(q) == SearchRanked(q, applyFiltersGrpc(users, q.filter))

ListUsers(q) == GrpcCursorPage(users, q.page_token, GrpcLimit(q))

(***************************************************************************)
(* gRPC server: StreamUsers.  A call is the stream's state: the rows to    *)
(* write (filteredUsers), index, call.cancelled, whether a sendNext is     *)
(* queued with setImmediate, whether call.end() was called and how many    *)
(* times, the ids written, how many were written when the cancellation     *)
(* arrived, and call.request.                                              *)
(***************************************************************************)
NoCall ==
  [ open |-> FALSE, rows |-> <<>>, index |-> 0, cancelled |-> FALSE, queued |-> FALSE,
    ended |-> FALSE, ends |-> 0, written |-> <<>>, writtenAtCancel |-> 0,
    request |-> [filter |-> Undefined, sort |-> Undefined, limit |-> 0] ]

\* if (limit > 0) filteredUsers = filteredUsers.slice(0, limit)
StreamRows(filteredUsers, limit) ==
  IF limit > 0 THEN Slice(filteredUsers, 0, limit) ELSE filteredUsers

\* a mutant: sendNext without the test of call.cancelled
sendNextUnchecked(c) ==
  IF c.index < Len(c.rows)
  THEN [c EXCEPT !.written = Append(@, c.rows[c.index + 1].id),
                 !.index = @ + 1, !.queued = TRUE]
  ELSE [c EXCEPT !.ended = TRUE, !.ends = @ + 1, !.queued = FALSE]

\* a mutant: sendNext writes a row and does not queue its next run
sendNextNotQueued(c) ==
  IF c.cancelled THEN [c EXCEPT !.queued = FALSE]
  ELSE IF c.index < Len(c.rows)
  THEN [c EXCEPT !.written = Append(@, c.rows[c.index + 1].id),
                 !.index = @ + 1, !.queued = FALSE]
  ELSE [c EXCEPT !.ended = TRUE, !.ends = @ + 1, !.queued = FALSE]

\* one run of sendNext: return when cancelled, else write the row at index
\* and queue the next run, or end the call after the last row
sendNext(c) ==
  IF c.cancelled THEN [c EXCEPT !.queued = FALSE]
  ELSE IF c.index < Len(c.rows)
  THEN [c EXCEPT !.written = Append(@, c.rows[c.index + 1].id),
                 !.index = @ + 1, !.queued = TRUE]
  ELSE [c EXCEPT !.ended = TRUE, !.ends = @ + 1, !.queued = FALSE]

\* the handler: the rows are filtered, sorted and cut, and sendNext runs once
StreamUsers(q) ==
  sendNext([NoCall EXCEPT
              !.open = TRUE,
              !.request = q,
              !.rows = StreamRows(applySortingGrpc(applyFiltersGrpc(users, q.filter), q.sort),
                                  q.limit)])


(***************************************************************************)
(* The arrays the handlers hold.  users is one array that every handler    *)
(* reads.  An array a handler holds is the users array itself (shared) or  *)
(* an array of its own; Array.prototype.sort orders the array it is called *)
(* on, so a sort of a shared array would reorder users.  No handler writes *)
(* to a row.                                                               *)
(***************************************************************************)
\* a mutant: the handler goes on with the array itself, not a copy of it
SpreadNoCopy(shared) == shared

\* [...arr]: a new array
Spread(shared) == FALSE

\* arr.filter(f), arr.map(f), arr.slice(a, b): a new array
Fresh(shared) == FALSE

\* arr.sort(cmp): what users holds afterwards, sorted being the rows in order
SortInPlace(shared, sorted) == IF shared THEN sorted ELSE users

\* GET /cursor-sorted: [...users].sort(...)
GetUsersCursorSortedLeaves(q) ==
  SortInPlace(Spread(TRUE),
    StableSort(users, LAMBDA a, b :
      CursorSortedCmp(a, b, IF q.sort_by = "" THEN "created_at" ELSE q.sort_by,
                            IF q.sort_order = "" THEN "desc" ELSE q.sort_order)))

\* whether some filter of the query string is applied
AnyQueryFilter(f) ==
  \E p \in {f.status, f.role, f.department, f.age_min, f.age_max, f.created_after,
            f.created_before, f.salary_gte, f.salary_lte, f.statuses, f.departments,
            OrElse(f.search, f.q), f.email_contains} : Truthy(p)

\* GET /users: filteredUsers = [...users], then filteredUsers = filteredUsers.filter(...)
\* for each filter sent, then filteredUsers.sort(...) under if (req.query.sort)
GetUsersLeaves(q) ==
  IF q.sort # <<>>
  THEN SortInPlace(IF AnyQueryFilter(q.filter) THEN Fresh(Spread(TRUE)) ELSE Spread(TRUE),
                   RestSorted(RestQueryFilter(users, q.filter), q.sort))
  ELSE users

\* POST /users/search: filteredUsers = [...users], a filter for each leaf the
\* switch knows, then filteredUsers.sort(...) under if (sort.length > 0)
PostUsersSearchLeaves(q, filtered) ==
  IF Len(q.body.sort) > 0 /\ ~filtered.thrown
  THEN SortInPlace(
         IF \E k \in 1..Len(q.body.filters) : q.body.filters[k].operator \in SearchOperators
         THEN Fresh(Spread(TRUE)) ELSE Spread(TRUE),
         SearchSorted(filtered.rows, q.body.sort))
  ELSE users

\* applyFilters: if (!filter) return userList; let result = [...userList]
applyFiltersReturns(shared, filter) == IF Absent(filter) THEN shared ELSE Spread(shared)

\* applySorting of the GraphQL server: if (!sort) return userList;
\* return [...userList].sort(...)
applySortingLeaves(shared, sorted, sort) ==
  IF Absent(sort) THEN users ELSE SortInPlace(Spread(shared), sorted)

\* applySorting of the gRPC server, which also returns userList for a field
\* it does not know
applySortingGrpcLeaves(shared, sorted, sort) ==
  IF Absent(sort) \/ sort.field = 0 \/ GrpcSortField(sort.field) = "" THEN users
  ELSE SortInPlace(Spread(shared), sorted)

\* usersOffset and users of the GraphQL server
GqlLeaves(q) ==
  applySortingLeaves(applyFiltersReturns(TRUE, q.filter),
                     applySorting(applyFilters(users, q.filter), q.sort), q.sort)

\* ListUsersOffset, ListUsersCursor and StreamUsers of the gRPC server
GrpcLeaves(q) ==
  applySortingGrpcLeaves(applyFiltersReturns(TRUE, q.filter),
                         applySortingGrpc(applyFiltersGrpc(users, q.filter), q.sort), q.sort)

\* SearchUsers: filteredUsers.map(...).filter(...).sort(...) under if (query),
\* then applySorting(searchResults.map(r => r.user), sort) under
\* if (sort && sort.field)
SearchUsersLeaves(q) ==
  IF Truthy(q.query) /\ Fresh(applyFiltersReturns(TRUE, q.filter))
  THEN SortInPlace(TRUE, Ranked(applyFiltersGrpc(users, q.filter), q.query.v))
  ELSE IF ~Absent(q.sort) /\ q.sort.field # 0
  THEN applySortingGrpcLeaves(Fresh(applyFiltersReturns(TRUE, q.filter)),
                              applySortingGrpc(applyFiltersGrpc(users, q.filter), q.sort),
                              q.sort)
  ELSE users

\* the rows of users once the handler of q has returned; the handlers that
\* only slice users leave it
UsersAfter(q) ==
  CASE q.op = "rest_cursor_sorted" -> GetUsersCursorSortedLeaves(q)
    [] q.op = "rest_users" -> GetUsersLeaves(q)
    [] q.op = "rest_search" -> PostUsersSearchLeaves(q, ApplyLeaves(users, q.body.filters, 1))
    [] q.op \in {"gql_usersOffset", "gql_users"} -> GqlLeaves(q)
    [] q.op \in {"grpc_offset", "grpc_cursor"} -> GrpcLeaves(q)
    [] q.op = "grpc_search" -> SearchUsersLeaves(q)
    [] OTHER -> users


(***************************************************************************)
(* The servers as a state machine: a client issues a request, reads the    *)
(* response, and either follows the cursor it was given or drops the run.  *)
(***************************************************************************)
\* the handler a request is routed to
Respond(q) ==
  CASE q.op = "rest_offset" -> GetUsersOffset(q)
    [] q.op = "rest_cursor" -> GetUsersCursor(q)
    [] q.op = "rest_cursor_sorted" -> GetUsersCursorSorted(q)
    [] q.op = "rest_users" -> GetUsers(q)
    [] q.op = "rest_search" -> PostUsersSearch(q)
    [] q.op = "gql_usersOffset" -> Query_usersOffset(q)
    [] q.op = "gql_users" -> Query_users(q)
    [] q.op = "gql_users_v1" -> Query_users_v1(q)
    [] q.op = "grpc_offset" -> ListUsersOffset(q)
    [] q.op = "grpc_cursor" -> ListUsersCursor(q)
    [] q.op = "grpc_search" -> SearchUsers(q)
    [] q.op = "grpc_list" -> ListUsers(q)

\* the operations that page by a cursor token
CursorOps ==
  {"rest_cursor", "rest_cursor_sorted", "gql_users", "gql_users_v1",
   "grpc_cursor", "grpc_search", "grpc_list"}

\* the token a request carries (undefined when it carries none)
TokenOf(q) ==
  CASE q.op \in {"rest_cursor", "rest_cursor_sorted"} -> q.cursor
    [] q.op \in {"gql_users", "gql_users_v1"} -> q.after
    [] q.op \in {"grpc_cursor", "grpc_search", "grpc_list"} -> q.page_token
    [] OTHER -> Undefined

\* the token a response hands the client for the next forward page
NextToken(q, r) ==
  CASE ~r.ok -> Null
    [] q.op \in {"rest_cursor", "rest_cursor_sorted"} -> r.next
    [] q.op \in {"gql_users", "gql_users_v1"} -> (IF r.has_next THEN r.endCursor ELSE Null)
    [] q.op \in {"grpc_cursor", "grpc_search", "grpc_list"} -> (IF r.has_more THEN r.next ELSE Null)
    [] OTHER -> Null

\* the request q with its forward token replaced
WithToken(q, token) ==
  CASE q.op \in {"rest_cursor", "rest_cursor_sorted"} -> [q EXCEPT !.cursor = token]
    [] q.op \in {"gql_users", "gql_users_v1"} -> [q EXCEPT !.after = token]
    [] OTHER -> [q EXCEPT !.page_token = token]

\* a run: its kind ("run" from no cursor, "probe" from a token of the
\* client's own, "back" in the backward pass), the ids read so far going
\* forward (seen) and backward (back), the ids read before the last page
\* (prior), how the rows changed since the last response (stale: "" not at
\* all, "before" only before the cursor's row, "other" otherwise), the same
\* for the change the last page was asked after (afterWrite), whether no page
\* of the run was asked after a change of the "other" kind (clean), the id
\* the last token names (cursorId) and the page that token came with (last)
NoTrail ==
  [ kind |-> "none", seen |-> <<>>, prior |-> <<>>, back |-> <<>>, pages |-> 0,
    stale |-> "", afterWrite |-> "", clean |-> TRUE, cursorId |-> 0,
    last |-> <<>> ]

\* the client reads the response r to the first request q of a run
FirstPage(q, r) ==
  /\ users' = UsersAfter(q)
  /\ req' = q
  /\ resp' = r
  /\ trail' = [ NoTrail EXCEPT
                  !.kind = IF Truthy(TokenOf(q)) \/ Truthy(q.before) THEN "probe" ELSE "run",
                  !.seen = r.items,
                  !.pages = 1 ]

\* the client sends q as the first request of a run
Issue(q) ==
  /\ req.op = "none"
  /\ FirstPage(q, Respond(q))
  /\ UNCHANGED <<nextId, writes, call>>

\* the longest run the client makes: one page per row, and two more
MaxPages == NumUsers + MaxWrites + 2

\* the client reads the response r to q, the request for the next page
NextPage(q, r) ==
  /\ users' = UsersAfter(q)
  /\ req' = q
  /\ resp' = r
  /\ trail' = [ trail EXCEPT
                  !.seen = trail.seen \o r.items,
                  !.pages = trail.pages + 1,
                  !.prior = trail.seen,
                  !.stale = "",
                  !.afterWrite = trail.stale,
                  !.clean = trail.clean /\ trail.stale # "other",
                  !.cursorId = resp.items[Len(resp.items)],
                  !.last = resp.items ]

Follow(q) == NextPage(q, Respond(q))

\* the client asks for the next forward page with the token it was handed
FollowNext ==
  /\ req.op \in CursorOps
  /\ trail.pages < MaxPages
  /\ trail.kind \in {"run", "probe"}
  /\ Truthy(NextToken(req, resp))
  /\ Len(resp.items) > 0
  /\ Follow(WithToken(req, NextToken(req, resp)))
  /\ UNCHANGED <<nextId, writes, call>>

\* the client reads the response r to q, the first request of the backward pass
TurnPage(q, r) ==
  /\ users' = UsersAfter(q)
  /\ req' = q
  /\ resp' = r
  /\ trail' = [trail EXCEPT !.kind = "back", !.back = r.items, !.pages = 1]

Turn(q) == TurnPage(q, Respond(q))

\* the client reads the response r to q, the request for the page before
BackPage(q, r) ==
  /\ users' = UsersAfter(q)
  /\ req' = q
  /\ resp' = r
  /\ trail' = [trail EXCEPT !.back = r.items \o trail.back, !.pages = trail.pages + 1]

Back(q) == BackPage(q, Respond(q))

\* the client drops the run
Discard ==
  /\ req.op # "none"
  /\ req' = NoReq
  /\ resp' = Failure("")
  /\ trail' = NoTrail
  /\ UNCHANGED <<users, nextId, writes, call>>

(***************************************************************************)
(* Writers.  The servers hold the rows in memory and never change them; a  *)
(* writer stands for the database the comments of the servers speak of,    *)
(* whose rows come and go between two requests.                            *)
(***************************************************************************)
\* the place (from 1) of the row the client's token names, 0 when the client
\* holds no token or the row is gone
CursorPlace ==
  IF req.op \in CursorOps /\ resp.ok /\ Len(resp.items) > 0
     /\ \E k \in 1..Len(users) : users[k].id = resp.items[Len(resp.items)]
  THEN CHOOSE k \in 1..Len(users) : users[k].id = resp.items[Len(resp.items)]
  ELSE 0

\* the trail after a change that was, or was not, before the cursor's row
Changed(before) ==
  [trail EXCEPT !.stale = IF before /\ trail.stale \in {"", "before"} THEN "before"
                          ELSE "other"]

\* a row with a fresh id is put at place pos + 1
InsertUser ==
  /\ writes < MaxWrites
  /\ \E pos \in 0..Len(users) :
       /\ users' = SubSeq(users, 1, pos) \o <<MakeUser(nextId - 1)>>
                     \o SubSeq(users, pos + 1, Len(users))
       /\ trail' = Changed(pos < CursorPlace)
  /\ nextId' = nextId + 1
  /\ writes' = writes + 1
  /\ UNCHANGED <<req, resp, call>>

\* the row at place pos is removed
DeleteUser ==
  /\ writes < MaxWrites
  /\ \E pos \in 1..Len(users) :
       /\ users' = SubSeq(users, 1, pos - 1) \o SubSeq(users, pos + 1, Len(users))
       /\ trail' = Changed(pos < CursorPlace)
  /\ UNCHANGED nextId
  /\ writes' = writes + 1
  /\ UNCHANGED <<req, resp, call>>


(***************************************************************************)
(* The requests the client chooses from.                                   *)
(***************************************************************************)
\* the page sizes and page numbers a client asks for
Sizes == {0 - 1, 0, 1, 2, 3, MaxLimit + 1000}

Pages == {0, 1, 2, 3}

\* a query-string parameter: its text, or undefined when not sent
QueryParams(ns) == {Undefined} \cup {Str(NumberToString(n)) : n \in ns}

\* an argument of a typed request: its number, or undefined when not given
Args(ns) == {Undefined} \cup {Num(n) : n \in ns}

\* "!!!not-base-valid!!!": no base64 of a JSON text
BadToken == Str(<<33, 33, 33, 110, 111, 116, 45, 98, 97, 115, 101, 45, 118, 97, 108, 105, 100, 33, 33, 33>>)

\* "MQ==": the base64 of the JSON text 1, which is no key tuple
ScalarToken == Str(<<77, 81, 61, 61>>)

\* the tokens a client may hold for the rows with ids 1..n: the REST
\* servers' (numeric id) and the GraphQL and gRPC servers' (text id)
RestTokens(n) == {encodeCursor(Obj(<< <<KeyId, Num(i)>> >>)) : i \in 1..n}

TextTokens(n) == {encodeCursor(Obj(<< <<KeyId, Str(NumberToString(i))>> >>)) : i \in 1..n}

\* "jo", a search term
TermJo == <<106, 111>>

\* the query strings of GET /api/v1/users the client sends
RestQueries ==
  { NoQuery,
    [NoQuery EXCEPT !.status = Str(ToLowerCase(StatusNames[1]))],
    [NoQuery EXCEPT !.age_min = Str(NumberToString(22)), !.department = Str(Departments[1])],
    [NoQuery EXCEPT !.search = Str(TermJo), !.fields = Str(KeyId)] }

RestSorts ==
  { <<>>,
    << [prefix |-> "-", name |-> "age"] >>,
    << [prefix |-> "", name |-> "first_name"], [prefix |-> "-", name |-> "salary"] >> }

\* the filters objects of POST /api/v1/users/search the client sends
SearchFilters ==
  { <<>>,
    << [field |-> "age", operator |-> "gte", value |-> Num(22)] >>,
    << [field |-> "status", operator |-> "in",
        value |-> Arr(<<Str(ToLowerCase(StatusNames[1])), Str(ToLowerCase(StatusNames[3]))>>)],
       [field |-> "first_name", operator |-> "starts_with", value |-> Str(TermJo)] >>,
    << [field |-> "first_name", operator |-> "contains", value |-> Num(5)] >>,
    << [field |-> "age", operator |-> "between", value |-> Num(30)] >> }

\* the (filter, sort) arguments of the GraphQL queries the client sends
PlainView == [filter |-> Undefined, sort |-> Undefined]

GqlViews ==
  { PlainView,
    [filter |-> [NoFilter EXCEPT !.status = Str(StatusNames[1])],
     sort |-> [field |-> "AGE", order |-> "DESC"]],
    [filter |-> [NoFilter EXCEPT !.or = Arr(<< [NoFilter EXCEPT !.ageGte = Num(23)],
                                               [NoFilter EXCEPT !.department = Str(Departments[1])] >>)],
     sort |-> [field |-> "FIRST_NAME", order |-> "ASC"]],
    [filter |-> [NoFilter EXCEPT !.and = Arr(<< [NoFilter EXCEPT !.salaryLte = Num(54000)] >>),
                                 !.search = Str(TermJo)],
     sort |-> Undefined],
    [filter |-> Undefined, sort |-> [field |-> "SALARY", order |-> "DESC"]] }

\* the (filter, sort) members of the gRPC requests the client sends
GrpcViews ==
  { PlainView,
    [filter |-> NoGrpcFilter, sort |-> [field |-> 0, order |-> 0]],
    [filter |-> [NoGrpcFilter EXCEPT !.status = Num(1)], sort |-> [field |-> 5, order |-> 2]],
    [filter |-> [NoGrpcFilter EXCEPT !.age_min = Obj(<< <<KeyValue, Num(22)>> >>),
                                     !.departments = Arr(<<Str(Departments[1]), Str(Departments[2])>>)],
     sort |-> [field |-> 2, order |-> 1]],
    [filter |-> [NoGrpcFilter EXCEPT !.ids = Arr(<<Str(NumberToString(2)), Str(NumberToString(5))>>)],
     sort |-> [field |-> 7, order |-> 2]] }

\* GET /api/v1/users/offset?page=&limit=
GetUsersOffsetOf(pages, limits) ==
  \E page \in pages, limit \in limits :
    Issue([NoReq EXCEPT !.op = "rest_offset", !.page = page, !.limit = limit])

\* GET /api/v1/users/cursor?cursor=&limit=
GetUsersCursorOf(limits, cursors) ==
  \E limit \in limits, cursor \in cursors :
    Issue([NoReq EXCEPT !.op = "rest_cursor", !.cursor = cursor, !.limit = limit])

\* GET /api/v1/users/cursor-sorted?cursor=&limit=&sort_by=&sort_order=
GetUsersCursorSortedOf(limits, cursors, sortBys, sortOrders) ==
  \E limit \in limits, cursor \in cursors, sort_by \in sortBys, sort_order \in sortOrders :
    Issue([NoReq EXCEPT !.op = "rest_cursor_sorted", !.cursor = cursor, !.limit = limit,
                        !.sort_by = sort_by, !.sort_order = sort_order])

\* GET /api/v1/users?...&sort=&page=&limit=
GetUsersOf(pages, limits, filters, sorts) ==
  \E page \in pages, limit \in limits, filter \in filters, sort \in sorts :
    Issue([NoReq EXCEPT !.op = "rest_users", !.page = page, !.limit = limit,
                        !.filter = filter, !.sort = sort])

\* POST /api/v1/users/search
PostUsersSearchOf(filterSets, sorts, pages, limits) ==
  \E filters \in filterSets, sort \in sorts, page \in pages, limit \in limits :
    Issue([NoReq EXCEPT !.op = "rest_search",
                        !.body = [filters |-> filters, sort |-> sort,
                                  pagination |-> [page |-> page, limit |-> limit]]])

\* query { usersOffset(limit, offset, filter, sort) }
UsersOffsetOf(limits, offsets, views) ==
  \E limit \in limits, offset \in offsets, view \in views :
    Issue([NoReq EXCEPT !.op = "gql_usersOffset", !.limit = limit, !.offset = offset,
                        !.filter = view.filter, !.sort = view.sort])

\* query { users(first, after, filter, sort) }
UsersOf(firsts, afters, views) ==
  \E first \in firsts, after \in afters, view \in views :
    Issue([NoReq EXCEPT !.op = "gql_users", !.first = first, !.after = after,
                        !.filter = view.filter, !.sort = view.sort])

\* query { users(last, before, first) }
UsersBackwardOf(lasts, firsts, befores) ==
  \E last \in lasts, first \in firsts, before \in befores :
    Issue([NoReq EXCEPT !.op = "gql_users", !.first = first, !.last = last, !.before = before])

\* query { users(first, after) } on the first version of the server
UsersV1Of(firsts, afters) ==
  \E first \in firsts, after \in afters :
    Issue([NoReq EXCEPT !.op = "gql_users_v1", !.first = first, !.after = after])

\* ListUsersOffset(page_size, page_number, filter, sort)
ListUsersOffsetOf(sizes, numbers, views) ==
  \E page_size \in sizes, page_number \in numbers, view \in views :
    Issue([NoReq EXCEPT !.op = "grpc_offset", !.page_size = page_size,
                        !.page_number = page_number,
                        !.filter = view.filter, !.sort = view.sort])

\* ListUsersCursor(page_size, page_token, filter, sort)
ListUsersCursorOf(sizes, tokens, views) ==
  \E page_size \in sizes, page_token \in tokens, view \in views :
    Issue([NoReq EXCEPT !.op = "grpc_cursor", !.page_size = page_size,
                        !.page_token = page_token,
                        !.filter = view.filter, !.sort = view.sort])

\* SearchUsers(query, filter, page_size, page_token, sort)
SearchUsersOf(queries, sizes, tokens, views) ==
  \E query \in queries, page_size \in sizes, page_token \in tokens, view \in views :
    Issue([NoReq EXCEPT !.op = "grpc_search", !.query = query, !.page_size = page_size,
                        !.page_token = page_token,
                        !.filter = view.filter, !.sort = view.sort])

\* ListUsers(page_size, page_token) on the first version of the server
ListUsersOf(sizes, tokens) ==
  \E page_size \in sizes, page_token \in tokens :
    Issue([NoReq EXCEPT !.op = "grpc_list", !.page_size = page_size, !.page_token = page_token])

\* the forward run is over: the client turns round and asks for the pages
\* before the last cursor it obtained
StartBackward ==
  /\ req.op = "gql_users" /\ trail.kind = "run"
  /\ resp.ok /\ ~resp.has_next /\ Truthy(resp.endCursor)
  /\ req.first.t # "undef"
  /\ Turn([req EXCEPT !.first = Undefined, !.after = Undefined,
                      !.last = req.first, !.before = resp.endCursor])
  /\ UNCHANGED <<nextId, writes, call>>

\* the client asks for the page before the one it holds
FollowBackward ==
  /\ req.op = "gql_users" /\ trail.kind = "back"
  /\ trail.pages < MaxPages
  /\ resp.ok /\ resp.has_prev /\ Truthy(resp.startCursor)
  /\ Back([req EXCEPT !.before = resp.startCursor])
  /\ UNCHANGED <<nextId, writes, call>>


(***************************************************************************)
(* The servers over their mock database of NumUsers rows.                  *)
(***************************************************************************)
CallGetUsersOffset == GetUsersOffsetOf(QueryParams(Pages), QueryParams(Sizes))

CallGetUsersCursor ==
  GetUsersCursorOf(QueryParams(Sizes),
                   {Undefined, BadToken, ScalarToken} \cup RestTokens(Len(users) + 1))

CallGetUsersCursorSorted ==
  GetUsersCursorSortedOf(QueryParams({0, 2, MaxLimit + 1000}),
                         {Undefined, BadToken, ScalarToken},
                         {"", "age", "first_name", "nickname"}, {"", "asc", "desc"})

CallGetUsers ==
  GetUsersOf(QueryParams({1, 2}), QueryParams({0, 2, MaxLimit + 1000}), RestQueries, RestSorts)

CallPostUsersSearch ==
  PostUsersSearchOf(SearchFilters, {<<>>, << [field |-> "age", order |-> "desc"] >>},
                    Args({2}), Args({0, 2, MaxLimit + 1000}))

CallUsersOffset == UsersOffsetOf(Args(Sizes), Args({0 - 1, 0, 2, 4}), GqlViews)

CallUsers ==
  UsersOf(Args(Sizes), {Undefined, BadToken, ScalarToken} \cup TextTokens(Len(users) + 1),
          GqlViews)

CallUsersBackward ==
  UsersBackwardOf(Args(Sizes) \ {Undefined}, Args({2}),
                  {Undefined, BadToken} \cup TextTokens(Len(users) + 1))

CallUsersV1 ==
  UsersV1Of(Args(Sizes \cup {0 - 2}),
            {Undefined, BadToken, ScalarToken} \cup TextTokens(Len(users) + 1))

CallListUsersOffset == ListUsersOffsetOf(Args(Sizes), Args(Pages), GrpcViews)

CallListUsersCursor ==
  ListUsersCursorOf(Args(Sizes),
                    {Undefined, Str(<<>>), BadToken, ScalarToken} \cup TextTokens(Len(users) + 1),
                    GrpcViews)

CallSearchUsers ==
  SearchUsersOf({Undefined, Str(<<>>), Str(TermJo), Str(<<111>>), Str(ToLowerCase(LastNames[2]))},
                Args({0, 2, MaxLimit + 1000}), {Undefined, BadToken}, GrpcViews)

CallListUsers ==
  ListUsersOf(Args(Sizes),
              {Undefined, BadToken, ScalarToken} \cup TextTokens(Len(users) + 1))

Idle ==
  /\ nextId = Len(users) + 1
  /\ writes = 0
  /\ req = NoReq
  /\ resp = Failure("")
  /\ trail = NoTrail
  /\ call = NoCall

Init == users = MakeUsers(NumUsers) /\ Idle

Next ==
  \/ CallGetUsersOffset
  \/ CallGetUsersCursor
  \/ CallGetUsersCursorSorted
  \/ CallGetUsers
  \/ CallPostUsersSearch
  \/ CallUsersOffset
  \/ CallUsers
  \/ CallUsersBackward
  \/ CallUsersV1
  \/ CallListUsersOffset
  \/ CallListUsersCursor
  \/ CallSearchUsers
  \/ CallListUsers
  \/ FollowNext
  \/ StartBackward
  \/ FollowBackward
  \/ Discard

Spec == Init /\ [][Next]_vars

(***************************************************************************)
(* The id-cursor operations while writers change the rows.                 *)
(***************************************************************************)
\* the page sizes of the runs that writers interleave with
ChangeSizes == {1, 2}

PageGetUsersCursor == GetUsersCursorOf(QueryParams(ChangeSizes) \ {Undefined}, {Undefined})

PageUsers == UsersOf(Args(ChangeSizes) \ {Undefined}, {Undefined}, {PlainView})

PageUsersV1 == UsersV1Of(Args(ChangeSizes) \ {Undefined}, {Undefined})

PageListUsersCursor ==
  ListUsersCursorOf(Args(ChangeSizes) \ {Undefined}, {Undefined}, {PlainView})

PageListUsers == ListUsersOf(Args(ChangeSizes) \ {Undefined}, {Undefined})

NextChange ==
  \/ PageGetUsersCursor
  \/ PageUsers
  \/ PageUsersV1
  \/ PageListUsersCursor
  \/ PageListUsers
  \/ FollowNext
  \/ InsertUser
  \/ DeleteUser
  \/ Discard

SpecChange == Init /\ [][NextChange]_vars

(***************************************************************************)
(* The servers over more rows than a page may hold.                        *)
(***************************************************************************)
\* the page sizes around the cap
BoundarySizes == {0 - 2, MaxLimit, MaxLimit + 1, MaxLimit + 1000}

\* the rows whose tokens the client holds
BoundaryIds == 3

BigGetUsersOffset == GetUsersOffsetOf(QueryParams({1, 2}), QueryParams(BoundarySizes))

BigGetUsersCursor ==
  GetUsersCursorOf(QueryParams(BoundarySizes), {Undefined} \cup RestTokens(BoundaryIds))

BigGetUsersCursorSorted ==
  GetUsersCursorSortedOf(QueryParams(BoundarySizes), {Undefined}, {"", "age"}, {"asc", "desc"})

BigGetUsers ==
  GetUsersOf(QueryParams({1, 2}), QueryParams(BoundarySizes), {NoQuery}, {<<>>})

BigPostUsersSearch ==
  PostUsersSearchOf({<<>>}, {<<>>}, Args({2}), Args(BoundarySizes))

BigUsersOffset == UsersOffsetOf(Args(BoundarySizes), Args({0, 2}), {PlainView})

BigUsers == UsersOf(Args(BoundarySizes), {Undefined} \cup TextTokens(BoundaryIds), {PlainView})

BigUsersBackward ==
  UsersBackwardOf(Args(BoundarySizes) \ {Undefined}, {Undefined}, {Undefined})

BigUsersV1 == UsersV1Of(Args(BoundarySizes), {Undefined} \cup TextTokens(BoundaryIds))

BigListUsersOffset == ListUsersOffsetOf(Args(BoundarySizes), Args({1, 2}), {PlainView})

BigListUsersCursor ==
  ListUsersCursorOf(Args(BoundarySizes), {Undefined} \cup TextTokens(BoundaryIds), {PlainView})

BigSearchUsers ==
  SearchUsersOf({Undefined, Str(TermJo)}, Args(BoundarySizes), {Undefined}, {PlainView})

BigListUsers == ListUsersOf(Args(BoundarySizes), {Undefined} \cup TextTokens(BoundaryIds))

InitBoundary == users = MakeUsers(MaxLimit + ExtraUsers) /\ Idle

NextBoundary ==
  \/ BigGetUsersOffset
  \/ BigGetUsersCursor
  \/ BigGetUsersCursorSorted
  \/ BigGetUsers
  \/ BigPostUsersSearch
  \/ BigUsersOffset
  \/ BigUsers
  \/ BigUsersBackward
  \/ BigUsersV1
  \/ BigListUsersOffset
  \/ BigListUsersCursor
  \/ BigSearchUsers
  \/ BigListUsers
  \/ Discard

SpecBoundary == InitBoundary /\ [][NextBoundary]_vars

(***************************************************************************)
(* The cursor codec on its own: a key tuple is encoded, and the token is   *)
(* decoded again.                                                          *)
(***************************************************************************)
\* the ids of the key tuples: numbers on the REST server, text on the others
IdValues == {Num(i) : i \in 1..NumUsers} \cup {Str(NumberToString(i)) : i \in 1..NumUsers}

\* the sort values of the key tuples: numbers, a name, the empty text, a text
\* with a quote, a backslash and a line feed, a text beyond ASCII, a timestamp
SortValues ==
  { Num(0), Num(20), Num(50000), Num(0 - 5), Null,
    Str(FirstNames[1]), Str(<<>>), Str(<<74, 34, 92, 10>>), Str(<<233, 8364>>),
    Str(IsoText(2000)) }

KeyTuples ==
  {Obj(<< <<KeyId, i>> >>) : i \in IdValues}
    \cup {Obj(<< <<KeySortValue, v>>, <<KeyId, i>> >>) : v \in SortValues, i \in IdValues}

\* encodeCursor(k)
Encode ==
  /\ req.op = "none"
  /\ \E k \in KeyTuples :
       /\ req' = [NoReq EXCEPT !.op = "encode", !.body = k]
       /\ resp' = [ok |-> TRUE, error |-> "", items |-> <<>>, value |-> encodeCursor(k)]
  /\ UNCHANGED <<users, nextId, writes, trail, call>>

\* decodeCursor(token) of the REST and GraphQL servers
Decode ==
  /\ req.op = "encode"
  /\ req' = [req EXCEPT !.op = "decode", !.cursor = resp.value]
  /\ resp' = [resp EXCEPT !.value = decodeCursor(resp.value)]
  /\ UNCHANGED <<users, nextId, writes, trail, call>>

\* decodeCursor(token) of the gRPC servers
DecodeGrpc ==
  /\ req.op = "encode"
  /\ req' = [req EXCEPT !.op = "decode_grpc", !.cursor = resp.value]
  /\ resp' = [resp EXCEPT !.value = decodeCursorGrpc(resp.value)]
  /\ UNCHANGED <<users, nextId, writes, trail, call>>

\* the texts a text begins with
Prefixes(s) == {SubSeq(s, 1, n) : n \in 0..Len(s)}

\* the key tuples whose tokens a client cuts short
CutTuples ==
  {Obj(<< <<KeyId, i>> >>) : i \in {Num(1), Str(NumberToString(1))}}
    \cup {Obj(<< <<KeySortValue, v>>, <<KeyId, Num(1)>> >>) : v \in SortValues}

\* the tokens a client may send: whole and truncated tokens, the empty text,
\* texts outside base64, a token of a scalar, one with characters put before
\* it, and values that are no text
AnyTokens ==
  {Str(p) : p \in UNION {Prefixes(encodeCursor(k).v) : k \in CutTuples}}
    \cup {BadToken, ScalarToken, Str(<<33, 33>> \o ScalarToken.v), Str(<<61>>),
          Str(<<123, 125>>), Undefined, Null, Num(5)}

\* decodeCursor(token) of the REST and GraphQL servers, of any token
DecodeAny ==
  /\ req.op = "none"
  /\ \E t \in AnyTokens :
       /\ req' = [NoReq EXCEPT !.op = "decode_any", !.cursor = t]
       /\ resp' = [ok |-> TRUE, error |-> "", items |-> <<>>, value |-> decodeCursor(t)]
  /\ UNCHANGED <<users, nextId, writes, trail, call>>

\* decodeCursor(token) of the gRPC servers, of any token
DecodeAnyGrpc ==
  /\ req.op = "none"
  /\ \E t \in AnyTokens :
       /\ req' = [NoReq EXCEPT !.op = "decode_any_grpc", !.cursor = t]
       /\ resp' = [ok |-> TRUE, error |-> "", items |-> <<>>, value |-> decodeCursorGrpc(t)]
  /\ UNCHANGED <<users, nextId, writes, trail, call>>

NextCodec == Encode \/ Decode \/ DecodeGrpc \/ DecodeAny \/ DecodeAnyGrpc \/ Discard

SpecCodec == Init /\ [][NextCodec]_vars

(***************************************************************************)
(* The sort functions alone: applySorting of the GraphQL and gRPC servers  *)
(* applied to lists of rows in any order.                                  *)
(***************************************************************************)
\* the longest list sorted
MaxSortRows == 3

\* lists of distinct rows of the table, in every order
RowLists ==
  UNION { { [k \in 1..n |-> users[g[k]]] :
              g \in {h \in [1..n -> 1..Len(users)] :
                       \A i, j \in 1..n : i # j => h[i] # h[j]} } :
          n \in 0..MaxSortRows }

\* the sort arguments of the GraphQL server
GqlSorts ==
  [field : {"CREATED_AT", "FIRST_NAME", "LAST_NAME", "EMAIL", "AGE", "SALARY"},
   order : {"ASC", "DESC"}]

\* the sort messages of the gRPC server
GrpcSorts == [field : 1..6, order : {1, 2}]

\* applySorting(userList, sort) of the GraphQL server
SortGql ==
  /\ req.op = "none"
  /\ \E userList \in RowLists, sort \in GqlSorts :
       /\ req' = [NoReq EXCEPT !.op = "sort_gql", !.sort = sort, !.body = userList]
       /\ resp' = [ok |-> TRUE, error |-> "", items |-> Ids(applySorting(userList, sort))]
  /\ UNCHANGED <<users, nextId, writes, trail, call>>

\* applySorting(userList, sort) of the gRPC server
SortGrpc ==
  /\ req.op = "none"
  /\ \E userList \in RowLists, sort \in GrpcSorts :
       /\ req' = [NoReq EXCEPT !.op = "sort_grpc", !.sort = sort, !.body = userList]
       /\ resp' = [ok |-> TRUE, error |-> "", items |-> Ids(applySortingGrpc(userList, sort))]
  /\ UNCHANGED <<users, nextId, writes, trail, call>>

NextSort == SortGql \/ SortGrpc \/ Discard

SpecSort == Init /\ [][NextSort]_vars

(***************************************************************************)
(* The filter function alone: applyFilters of the GraphQL server applied   *)
(* to filter expressions and lists of rows.                                *)
(***************************************************************************)
\* filters of one member
FilterLeaves ==
  { [NoFilter EXCEPT !.status = Str(StatusNames[1])],
    [NoFilter EXCEPT !.statusIn = Arr(<<Str(StatusNames[2]), Str(StatusNames[3])>>)],
    [NoFilter EXCEPT !.role = Str(RoleNames[2])],
    [NoFilter EXCEPT !.department = Str(Departments[1])],
    [NoFilter EXCEPT !.departmentIn = Arr(<<Str(Departments[2])>>)],
    [NoFilter EXCEPT !.ageGte = Num(22)],
    [NoFilter EXCEPT !.ageLte = Num(23)],
    [NoFilter EXCEPT !.ageEq = Num(21)],
    [NoFilter EXCEPT !.salaryGte = Num(52000)],
    [NoFilter EXCEPT !.salaryLte = Num(53000)],
    [NoFilter EXCEPT !.search = Str(TermJo)],
    [NoFilter EXCEPT !.emailContains = Str(<<114, 50>>)] }

\* the leaves the combinators are built from
FewLeaves ==
  { [NoFilter EXCEPT !.status = Str(StatusNames[1])],
    [NoFilter EXCEPT !.ageGte = Num(22)],
    [NoFilter EXCEPT !.search = Str(TermJo)] }

\* filters with and / or lists, the empty lists among them
FilterTrees ==
  FilterLeaves
    \cup { NoFilter, [NoFilter EXCEPT !.and = Arr(<<>>)], [NoFilter EXCEPT !.or = Arr(<<>>)],
           [NoFilter EXCEPT !.and = Arr(<<>>), !.or = Arr(<<>>)] }
    \cup { [NoFilter EXCEPT !.or = Arr(<<a, b>>)] : a, b \in FewLeaves }
    \cup { [a EXCEPT !.and = Arr(<<b>>)] : a, b \in FewLeaves }
    \cup { [a EXCEPT !.or = Arr(<<b, [NoFilter EXCEPT !.and = Arr(<<a, b>>)]>>)] : a, b \in FewLeaves }

\* { and: [e, e] }
Twice(e) == [NoFilter EXCEPT !.and = Arr(<<e, e>>)]

FilterExprs == FilterTrees \cup {Twice(e) : e \in FilterTrees}

\* applyFilters(userList, filter)
FilterGql ==
  /\ req.op = "none"
  /\ \E userList \in RowLists \cup {users}, filter \in FilterExprs \cup {Undefined} :
       /\ req' = [NoReq EXCEPT !.op = "filter_gql", !.filter = filter, !.body = userList]
       /\ resp' = [ok |-> TRUE, error |-> "", items |-> Ids(applyFilters(userList, filter))]
  /\ UNCHANGED <<users, nextId, writes, trail, call>>

NextFilter == FilterGql \/ Discard

SpecFilter == Init /\ [][NextFilter]_vars

(***************************************************************************)
(* StreamUsers: the handler, the queued runs of sendNext, and the client's *)
(* cancellation, which the event loop takes between two of them.           *)
(***************************************************************************)
\* the limits of the stream requests: none, some rows, a negative one
StreamLimits == {0, 2, 3, 0 - 1}

\* the (filter, sort) members of the stream requests
StreamViews ==
  GrpcViews \cup { [filter |-> NoGrpcFilter, sort |-> [field |-> f, order |-> o]] :
                     f \in {2, 3, 5}, o \in {1, 2} }

\* the client opens a stream
StreamUsersOf(views, limits) ==
  /\ ~call.open
  /\ \E view \in views, limit \in limits :
       /\ call' = StreamUsers([filter |-> view.filter, sort |-> view.sort, limit |-> limit])
       /\ users' = GrpcLeaves(view)
  /\ UNCHANGED <<nextId, writes, req, resp, trail>>

CallStreamUsers == StreamUsersOf(StreamViews, StreamLimits)

\* the event loop runs the queued sendNext
RunSendNext ==
  /\ call.open
  /\ call.queued
  /\ call' = sendNext(call)
  /\ UNCHANGED <<users, nextId, writes, req, resp, trail>>

\* the client's cancellation arrives: call.cancelled becomes true
Cancel ==
  /\ call.open
  /\ ~call.cancelled
  /\ ~call.ended
  /\ call' = [call EXCEPT !.cancelled = TRUE, !.writtenAtCancel = Len(call.written)]
  /\ UNCHANGED <<users, nextId, writes, req, resp, trail>>

\* the call is over: nothing is queued any more
CloseCall ==
  /\ call.open
  /\ ~call.queued
  /\ call' = NoCall
  /\ UNCHANGED <<users, nextId, writes, req, resp, trail>>

NextStream == CallStreamUsers \/ RunSendNext \/ Cancel \/ CloseCall

SpecStream == Init /\ [][NextStream]_vars

\* setImmediate: a queued sendNext is run by the event loop
SpecStreamFair == Init /\ [][NextStream]_vars /\ WF_vars(RunSendNext)

(***************************************************************************)
(* The filter object of POST /api/v1/users/search: requests of one leaf    *)
(* and of two, over every operator name, known and unknown fields, and     *)
(* operands of every type.                                                 *)
(***************************************************************************)
\* the operator names a client sends: those the handler's switch has and
\* the others of the guide
LeafOperators ==
  SearchOperators \cup {"not_in", "ends_with", "is_null", "is_not_null"}

\* "nickname" is no field of a user
LeafFields == {"age", "first_name", "nickname"}

\* operands: a number, texts, arrays, null and true
LeafOperands ==
  { Num(22), Str(TermJo), Str(<<110>>), Arr(<<Num(21), Num(22)>>),
    Arr(<<Str(FirstNames[1]), Str(FirstNames[2])>>), Null, Bool(TRUE) }

\* a comparison with an array operand converts the array to a text, which
\* the requests leave out
OneLeaf ==
  { l \in { << [field |-> f, operator |-> o, value |-> v] >> :
              f \in LeafFields, o \in LeafOperators, v \in LeafOperands } :
      l[1].operator \in {"gt", "gte", "lt", "lte"} => l[1].value.t # "arr" }

TwoLeaves ==
  { << [field |-> "age", operator |-> "gte", value |-> Num(21)],
       [field |-> "first_name", operator |-> o, value |-> v] >> :
      o \in {"eq", "contains", "in"}, v \in {Str(FirstNames[2]), Num(22)} }

\* POST /api/v1/users/search { filters }
SearchLeaves == PostUsersSearchOf(OneLeaf \cup TwoLeaves, {<<>>}, {Undefined}, {Undefined})

NextSearch == SearchLeaves \/ Discard

SpecSearch == Init /\ [][NextSearch]_vars

(***************************************************************************)
(* Every kind of operation (filter, sort, offset, cursor, search) while a  *)
(* stream is written: a handler runs to its end, and the queued runs of    *)
(* sendNext fall between the handlers in any order.                        *)
(***************************************************************************)
\* a sort of the search body: by age, descending
ByAgeDesc == << [field |-> "age", order |-> "desc"] >>

MixGetUsers == GetUsersOf({Undefined}, {Str(NumberToString(2))}, RestQueries, RestSorts)

MixGetUsersCursorSorted ==
  GetUsersCursorSortedOf({Str(NumberToString(2))}, {Undefined}, {"age", "first_name"},
                         {"asc", "desc"})

MixPostUsersSearch == PostUsersSearchOf(SearchFilters, {<<>>, ByAgeDesc}, {Undefined}, {Num(2)})

MixUsersOffset == UsersOffsetOf({Num(2)}, {Num(0), Num(2)}, GqlViews)

MixUsers == UsersOf({Num(2)}, {Undefined}, GqlViews)

MixListUsersCursor == ListUsersCursorOf({Num(2)}, {Undefined}, GrpcViews)

MixSearchUsers == SearchUsersOf({Undefined, Str(TermJo)}, {Num(2)}, {Undefined}, GrpcViews)

MixStreamUsers ==
  StreamUsersOf({PlainView, [filter |-> NoGrpcFilter, sort |-> [field |-> 5, order |-> 2]]},
                {0, 2})

NextMix ==
  \/ MixGetUsers
  \/ MixGetUsersCursorSorted
  \/ MixPostUsersSearch
  \/ MixUsersOffset
  \/ MixUsers
  \/ MixListUsersCursor
  \/ MixSearchUsers
  \/ FollowNext
  \/ Discard
  \/ MixStreamUsers
  \/ RunSendNext
  \/ Cancel
  \/ CloseCall

SpecMix == Init /\ [][NextMix]_vars

(***************************************************************************)
(* GET /api/v1/users/cursor-sorted followed from its first page, over      *)
(* sort fields with and without equal values and both sort orders.         *)
(***************************************************************************)
CompoundGetUsersCursorSorted ==
  GetUsersCursorSortedOf(QueryParams({1, 2, 3}), {Undefined},
                         {"", "id", "first_name", "age", "status", "department", "created_at"},
                         {"", "asc", "desc"})

NextCompound == CompoundGetUsersCursorSorted \/ FollowNext \/ Discard

SpecCompound == Init /\ [][NextCompound]_vars

(***************************************************************************)
(* The forward cursor operations over the whole table of the servers.      *)
(***************************************************************************)
\* the page sizes of the forward runs
WindowSizes == {2, 10, MaxLimit}

WindowGetUsersCursor ==
  GetUsersCursorOf(QueryParams(WindowSizes) \ {Undefined},
                   {Undefined} \cup RestTokens(BoundaryIds))

WindowUsers ==
  UsersOf(Args(WindowSizes) \ {Undefined}, {Undefined} \cup TextTokens(BoundaryIds),
          { PlainView,
            [filter |-> [NoFilter EXCEPT !.department = Str(Departments[1])],
             sort |-> [field |-> "AGE", order |-> "DESC"]] })

WindowUsersV1 ==
  UsersV1Of(Args(WindowSizes) \ {Undefined}, {Undefined} \cup TextTokens(BoundaryIds))

WindowListUsersCursor ==
  ListUsersCursorOf(Args(WindowSizes) \ {Undefined},
                    {Undefined} \cup TextTokens(BoundaryIds),
                    { PlainView,
                      [filter |-> [NoGrpcFilter EXCEPT !.status = Num(1)],
                       sort |-> [field |-> 6, order |-> 2]] })

WindowListUsers ==
  ListUsersOf(Args(WindowSizes) \ {Undefined}, {Undefined} \cup TextTokens(BoundaryIds))

InitTable == users = MakeUsers(TableSize) /\ Idle

NextWindow ==
  \/ WindowGetUsersCursor
  \/ WindowUsers
  \/ WindowUsersV1
  \/ WindowListUsersCursor
  \/ WindowListUsers
  \/ FollowNext
  \/ Discard

SpecWindow == InitTable /\ [][NextWindow]_vars

(***************************************************************************)
(* The users resolver of the GraphQL server under every combination of     *)
(* first, after, last and before.                                          *)
(***************************************************************************)
\* query { users(first, after, last, before, filter, sort) }
UsersAnyOf(firsts, afters, lasts, befores, views) ==
  \E first \in firsts, after \in afters, last \in lasts, before \in befores, view \in views :
    Issue([NoReq EXCEPT !.op = "gql_users", !.first = first, !.after = after,
                        !.last = last, !.before = before,
                        !.filter = view.filter, !.sort = view.sort])

AnyUsers ==
  UsersAnyOf(Args({1, 2, 3}), {Undefined} \cup TextTokens(Len(users)),
             Args({1, 2, 3}), {Undefined} \cup TextTokens(Len(users)),
             {PlainView, [filter |-> Undefined, sort |-> [field |-> "SALARY", order |-> "DESC"]]})

NextConnection == AnyUsers \/ Discard

SpecConnection == Init /\ [][NextConnection]_vars

(***************************************************************************)
(* GET /api/v1/users/cursor followed along cursors.prev.                   *)
(***************************************************************************)
\* the client reads the response r to q, the request of links.prev of the
\* page it holds: trail.last is that page, trail.cursorId the id its cursor named
PrevPage(q, r) ==
  /\ users' = UsersAfter(q)
  /\ req' = q
  /\ resp' = r
  /\ trail' = [trail EXCEPT !.kind = "prev", !.pages = trail.pages + 1,
                            !.last = resp.items,
                            !.cursorId = Get(decodeCursor(req.cursor), KeyId).v]

\* links.prev: /api/v1/users/cursor?limit=${limit}&cursor=${prevCursor}
FollowPrev ==
  /\ req.op = "rest_cursor"
  /\ trail.pages < MaxPages
  /\ resp.ok /\ Truthy(resp.prev)
  /\ PrevPage([req EXCEPT !.cursor = resp.prev, !.limit = Num(resp.limit)],
              Respond([req EXCEPT !.cursor = resp.prev, !.limit = Num(resp.limit)]))
  /\ UNCHANGED <<nextId, writes, call>>

NextPrev == CallGetUsersCursor \/ FollowNext \/ FollowPrev \/ Discard

SpecPrev == Init /\ [][NextPrev]_vars

(***************************************************************************)
(* Runs from no token to the last page: ListUsersCursor over all the rows, *)
(* some of them and none of them, GET /api/v1/users/cursor and ListUsers.  *)
(***************************************************************************)
\* no row is that old
NoRowView ==
  [filter |-> [NoGrpcFilter EXCEPT !.age_min = Obj(<< <<KeyValue, Num(1000)>> >>)],
   sort |-> Undefined]

RunListUsersCursor ==
  ListUsersCursorOf(Args(Sizes), {Undefined, Str(<<>>)}, GrpcViews \cup {NoRowView})

RunGetUsersCursor == GetUsersCursorOf(QueryParams(Sizes), {Undefined})

RunListUsers == ListUsersOf(Args(Sizes), {Undefined, Str(<<>>)})

NextRun == RunListUsersCursor \/ RunGetUsersCursor \/ RunListUsers \/ FollowNext \/ Discard

SpecRun == Init /\ [][NextRun]_vars

(***************************************************************************)
(* calculateSearchScore alone: the scores of two users for one query,      *)
(* over the rows of the table and users whose names hold a space.          *)
(***************************************************************************)
\* Ann Lee, al@x.io
AnnLee ==
  [MakeUser(0) EXCEPT !.first_name = <<65, 110, 110>>, !.last_name = <<76, 101, 101>>, !.email = <<97, 108, 64, 120, 46, 105, 111>>]

\* a first name and a last name of two words each: Ann Lee, Ann Lee
AnnLeeAnnLee ==
  [MakeUser(1) EXCEPT !.first_name = <<65, 110, 110, 32, 76, 101, 101>>, !.last_name = <<65, 110, 110, 32, 76, 101, 101>>, !.email = <<97, 108, 50, 64, 120, 46, 105, 111>>]

\* the same with the name in the email: "ann lee@x.io"
AnnLeeMail == [AnnLeeAnnLee EXCEPT !.email = <<97, 110, 110, 32, 108, 101, 101, 64, 120, 46, 105, 111>>]

ScoreUsers == {users[k] : k \in 1..Len(users)} \cup {AnnLee, AnnLeeAnnLee, AnnLeeMail}

\* "ann lee", "Ann", "jo", "John Doe", "user1@example.com", "USER1", "zz", "al@x.io"
ScoreQueries ==
  { <<97, 110, 110, 32, 108, 101, 101>>, <<65, 110, 110>>, TermJo, FirstNames[1] \o <<32>> \o LastNames[1],
    EmailPrefix \o NumberToString(1) \o EmailSuffix, <<85, 83, 69, 82, 49>>, <<122, 122>>, <<97, 108, 64, 120, 46, 105, 111>> }

\* calculateSearchScore(a, query) and calculateSearchScore(b, query)
ScorePair ==
  /\ req.op = "none"
  /\ \E a \in ScoreUsers, b \in ScoreUsers, query \in ScoreQueries :
       /\ req' = [NoReq EXCEPT !.op = "score", !.query = Str(query), !.body = <<a, b>>]
       /\ resp' = [ok |-> TRUE, error |-> "", items |-> <<>>,
                   scores |-> <<calculateSearchScore(a, query),
                                calculateSearchScore(b, query)>>]
  /\ UNCHANGED <<users, nextId, writes, trail, call>>

NextScore == ScorePair \/ Discard

SpecScore == Init /\ [][NextScore]_vars

(***************************************************************************)
(* What the properties speak of.                                           *)
(***************************************************************************)
\* the data a token may be the serialization of
SerializedData == CutTuples \cup {Num(1)}

\* the base64 characters of a token
Base64Text(s) == SelectSeq(s, LAMBDA c : Unbase64(c) >= 0)

\* the token is the serialization of d, its padding aside
Serializes(token, d) ==
  /\ token.t = "str"
  /\ Base64Text(token.v) = Base64Text(encodeCursor(d).v)

\* the row of the table with the id
RowOf(id) == users[CHOOSE k \in 1..Len(users) : users[k].id = id]

\* whether the request names a sort that SearchUsers applies
SortApplies(q) ==
  ~Absent(q.sort) /\ q.sort.field # 0 /\ GrpcSortField(q.sort.field) # ""

\* the operators of a filter leaf
ClaimOperators ==
  { "eq", "neq", "gt", "gte", "lt", "lte", "in", "not_in", "contains", "starts_with",
    "ends_with", "is_null", "is_not_null" }

\* whether the field is one of a user's
KnownField(field) == field \in {"id", "first_name", "last_name", "email", "age", "status",
                                "role", "created_at", "department", "salary"}

\* whether the operand is of the type the operator takes
OperandFits(operator, value) ==
  CASE operator \in {"in", "nin", "not_in"} -> value.t = "arr"
    [] operator \in {"contains", "starts_with", "ends_with"} -> value.t = "str"
    [] operator \in {"gt", "gte", "lt", "lte"} -> value.t \in {"num", "str"}
    [] operator \in {"is_null", "is_not_null"} -> value = Bool(TRUE)
    [] OTHER -> TRUE

\* the predicate of an operator on a field value x, for an operand that fits
Satisfies(x, operator, value) ==
  CASE operator = "eq" -> x.t = value.t /\ x.v = value.v
    [] operator = "neq" -> ~(x.t = value.t /\ x.v = value.v)
    [] operator = "gt" -> JsLess(value, x)
    [] operator = "gte" -> JsLessEq(value, x)
    [] operator = "lt" -> JsLess(x, value)
    [] operator = "lte" -> JsLessEq(x, value)
    [] operator = "in" -> \E k \in 1..Len(value.v) : StrictEq(value.v[k], x)
    [] operator = "not_in" -> ~\E k \in 1..Len(value.v) : StrictEq(value.v[k], x)
    [] operator = "contains" -> Includes(ToLowerCase(ToText(x)), ToLowerCase(value.v))
    [] operator = "starts_with" -> StartsWith(ToLowerCase(ToText(x)), ToLowerCase(value.v))
    [] operator = "ends_with" -> EndsWith(ToLowerCase(ToText(x)), ToLowerCase(value.v))
    [] operator = "is_null" -> x.t \in {"null", "undef"}
    [] operator = "is_not_null" -> x.t \notin {"null", "undef"}

\* the request is a search by leaves alone: no sort, the first page
IsLeafSearch(q) ==
  /\ q.op = "rest_search"
  /\ q.body.sort = <<>>
  /\ q.body.pagination.page = Undefined
  /\ q.body.pagination.limit = Undefined
  /\ Len(users) <= DefaultLimit

\* the filter is { and: [e, e] } for some e
IsTwice(f) ==
  /\ ~Absent(f)
  /\ Truthy(f.and)
  /\ Len(f.and.v) = 2
  /\ f = Twice(f.and.v[1])

\* matches(r, f): the members of f hold of the row r, some branch of its or
\* list matches r, and every branch of its and list matches r
RECURSIVE RowMatches(_, _)
RowMatches(r, f) ==
  \/ Absent(f)
  \/ /\ GqlMatches(r, f)
     /\ Truthy(f.or) => \E k \in 1..Len(f.or.v) : RowMatches(r, f.or.v[k])
     /\ Truthy(f.and) => \A k \in 1..Len(f.and.v) : RowMatches(r, f.and.v[k])

\* whether every or list of the filter, at any depth, has a branch
RECURSIVE OrListsHaveBranches(_)
OrListsHaveBranches(f) ==
  \/ Absent(f)
  \/ /\ Truthy(f.or) => /\ Len(f.or.v) > 0
                        /\ \A k \in 1..Len(f.or.v) : OrListsHaveBranches(f.or.v[k])
     /\ Truthy(f.and) => \A k \in 1..Len(f.and.v) : OrListsHaveBranches(f.and.v[k])

\* the rules of the score, on the user u and the query text
FullName(u) == ToLowerCase(u.first_name) \o <<32>> \o ToLowerCase(u.last_name)

EmailIs(u, query) == ToLowerCase(u.email) = ToLowerCase(query)

EmailHas(u, query) == ~EmailIs(u, query) /\ Includes(ToLowerCase(u.email), ToLowerCase(query))

NameIs(u, query) == FullName(u) = ToLowerCase(query)

NameHas(u, query) == ~NameIs(u, query) /\ Includes(FullName(u), ToLowerCase(query))

FirstStarts(u, query) == StartsWith(ToLowerCase(u.first_name), ToLowerCase(query))

LastStarts(u, query) == StartsWith(ToLowerCase(u.last_name), ToLowerCase(query))

\* the weight of a rule that holds
Weight(holds, w) == IF holds THEN w ELSE 0

\* the sum of the weights of the rules that hold
WeightSum(u, query) ==
  Weight(EmailIs(u, query), 100) + Weight(EmailHas(u, query), 30)
  + Weight(NameIs(u, query), 80) + Weight(NameHas(u, query), 40)
  + Weight(FirstStarts(u, query), 20) + Weight(LastStarts(u, query), 20)

\* the query is equal to a full field of u
ExactMatch(u, query) == EmailIs(u, query) \/ NameIs(u, query)

\* u has substring or prefix matches only
PartialMatchOnly(u, query) ==
  /\ ~ExactMatch(u, query)
  /\ EmailHas(u, query) \/ NameHas(u, query) \/ FirstStarts(u, query) \/ LastStarts(u, query)

\* the comparator of the sort a request names
SortCmpOf(q, a, b) ==
  IF q.op = "sort_gql" THEN GqlSortCmp(a, b, q.sort) ELSE GrpcSortCmp(a, b, q.sort)

\* the comparator with ascending id deciding the ties
TieBroken(comparison, a, b) ==
  IF comparison # 0 THEN comparison
  ELSE IF a.id < b.id THEN 0 - 1 ELSE IF a.id > b.id THEN 1 ELSE 0

\* the rows in the order of the request's sort, ascending id deciding the ties
TotalOrder(q) ==
  StableSort(q.body, LAMBDA a, b : TieBroken(SortCmpOf(q, a, b), a, b))

\* the page size a request asks for, undefined when it names none
SizeOf(q) ==
  CASE q.op \in {"rest_offset", "rest_cursor", "rest_cursor_sorted", "rest_users"} ->
         (IF q.limit.t = "undef" THEN Undefined ELSE ParseInt(q.limit))
    [] q.op = "rest_search" -> q.body.pagination.limit
    [] q.op = "gql_usersOffset" -> q.limit
    [] q.op = "gql_users" -> (IF q.first.t # "undef" THEN q.first ELSE q.last)
    [] q.op = "gql_users_v1" -> q.first
    [] q.op \in {"grpc_offset", "grpc_cursor", "grpc_search", "grpc_list"} -> q.page_size
    [] OTHER -> Undefined

\* the request q asking for pages of n rows
WithSize(q, n) ==
  CASE q.op \in {"rest_offset", "rest_cursor", "rest_cursor_sorted", "rest_users"} ->
         [q EXCEPT !.limit = Str(NumberToString(n))]
    [] q.op = "rest_search" -> [q EXCEPT !.body.pagination.limit = Num(n)]
    [] q.op = "gql_usersOffset" -> [q EXCEPT !.limit = Num(n)]
    [] q.op = "gql_users" ->
         (IF q.first.t # "undef" THEN [q EXCEPT !.first = Num(n)] ELSE [q EXCEPT !.last = Num(n)])
    [] q.op = "gql_users_v1" -> [q EXCEPT !.first = Num(n)]
    [] OTHER -> [q EXCEPT !.page_size = Num(n)]

\* the page number a request asks for, undefined when it names none
PageOf(q) ==
  CASE q.op \in {"rest_offset", "rest_users"} ->
         (IF q.page.t = "undef" THEN Undefined ELSE ParseInt(q.page))
    [] q.op = "grpc_offset" -> q.page_number
    [] OTHER -> Undefined

\* the ids of S, the filtered and sorted sequence a request pages through
View(q) ==
  CASE q.op = "rest_users" -> Ids(RestSorted(RestQueryFilter(users, q.filter), q.sort))
    [] q.op \in {"gql_usersOffset", "gql_users"} ->
         Ids(applySorting(applyFilters(users, q.filter), q.sort))
    [] q.op \in {"grpc_offset", "grpc_cursor"} ->
         Ids(applySortingGrpc(applyFiltersGrpc(users, q.filter), q.sort))
    [] OTHER -> Ids(users)

\* the ids of the rows in the order GET /cursor-sorted sorts them in
SortedView(q) ==
  Ids(StableSort(users, LAMBDA a, b :
        CursorSortedCmp(a, b, IF q.sort_by = "" THEN "created_at" ELSE q.sort_by,
                              IF q.sort_order = "" THEN "desc" ELSE q.sort_order)))

\* the ids of the sequence a stream request asks for: filtered, sorted, and
\* cut to limit when limit > 0
StreamView(q) ==
  IF q.limit > 0
  THEN SubSeq(View([op |-> "grpc_cursor", filter |-> q.filter, sort |-> q.sort]), 1,
              Min(q.limit, Len(View([op |-> "grpc_cursor", filter |-> q.filter, sort |-> q.sort]))))
  ELSE View([op |-> "grpc_cursor", filter |-> q.filter, sort |-> q.sort])

\* the forward operations whose token names a row by its id
IdCursorOps == {"rest_cursor", "gql_users", "gql_users_v1", "grpc_cursor", "grpc_list"}

IsPrefix(a, b) == Len(a) <= Len(b) /\ a = SubSeq(b, 1, Len(a))

\* the place (from 1) of id in the sequence ids, 0 when it is not there
PlaceOf(id, ids) ==
  IF \E k \in 1..Len(ids) : ids[k] = id THEN CHOOSE k \in 1..Len(ids) : ids[k] = id ELSE 0

\* the id a token names, as a number; NaN when it names none
TokenId(token) == ToNumber(Get(decodeCursor(token), KeyId))

\* a requested size within the bounds of a page
SizeWithinBounds(q) == SizeOf(q).t = "num" /\ SizeOf(q).v \in 1..MaxLimit

\* hasNext / has_more of a response to a cursor request
HasMoreOf(q, r) == IF q.op \in {"gql_users", "gql_users_v1"} THEN r.has_next ELSE r.has_more

\* s: the number of rows of S up to the row the request's token names, 0 for
\* a request without token
StartPosition(q) ==
  IF Truthy(TokenOf(q)) THEN PlaceOf(TokenId(TokenOf(q)).v, View(q)) ELSE 0

\* limit: the page size the handler works with
LimitOf(q) == IF q.op = "rest_cursor" THEN RestLimit(q) ELSE GrpcLimit(q)

\* ceil(|S| / limit) calls, one when S is empty
CallsToRead(S, limit) == Max(1, (Len(S) + limit - 1) \div limit)

\* the number of rows before the window a request asks for, when pages hold
\* MaxLimit rows
StartOf(q) ==
  CASE q.op \in {"rest_offset", "grpc_offset"} ->
         (IF PageOf(q).t = "num" /\ PageOf(q).v >= 1 THEN (PageOf(q).v - 1) * MaxLimit ELSE 0)
    [] Truthy(TokenOf(q)) -> PlaceOf(TokenId(TokenOf(q)).v, View(q))
    [] OTHER -> 0

\* the response r is page p of the pages of L rows of the sequence S of ids
IsOffsetPage(r, S, p, L) ==
  /\ r.ok
  /\ r.items = SubSeq(S, Min((p - 1) * L, Len(S)) + 1, Min(p * L, Len(S)))
  /\ r.has_next = (p * L < Len(S))
  /\ r.has_prev = (p > 1)
  /\ r.total_pages = (Len(S) + L - 1) \div L

(***************************************************************************)
(* C1  Monotonic windows.  Over static rows, a run that starts with no     *)
(* cursor and follows pageInfo.endCursor of GraphQL users(first, after),   *)
(* or next_page_token of gRPC ListUsersCursor, with a page size in         *)
(* [1, 100], has read at every moment a prefix of the filtered and sorted  *)
(* sequence, and all of it once no next page is announced: no record is    *)
(* read twice and none is left out.                                        *)
(***************************************************************************)
C1_MonotonicWindows ==
  ( /\ trail.kind = "run"
    /\ req.op \in {"gql_users", "grpc_cursor"}
    /\ req.last.t = "undef"
    /\ SizeWithinBounds(req) )
  => /\ resp.ok
     /\ IsPrefix(trail.seen, View(req))
     /\ ~Truthy(NextToken(req, resp)) => trail.seen = View(req)

\* a run of three pages and more has read all of five rows and more
C1_Witness ==
  /\ trail.kind = "run"
  /\ req.op = "gql_users" /\ req.last.t = "undef" /\ SizeWithinBounds(req)
  /\ trail.pages >= 3
  /\ ~Truthy(NextToken(req, resp))
  /\ Len(trail.seen) >= 5
  /\ trail.seen = View(req)

(***************************************************************************)
(* C2  Cursor round-trip.  For every key tuple k, {id} or {sort_value,    *)
(* id} with numbers, texts or null as values, decodeCursor(encodeCursor(k))*)
(* is k, with the decodeCursor of each server.                             *)
(***************************************************************************)
C2_CursorRoundTrip ==
  req.op \in {"decode", "decode_grpc"} => resp.value = req.body

\* a compound key whose sort value needs escapes has made the round trip
C2_Witness ==
  /\ req.op = "decode"
  /\ Len(req.body.v) = 2
  /\ req.body.v[1][2] = Str(<<74, 34, 92, 10>>)
  /\ resp.value = req.body

(***************************************************************************)
(* C3  Malformed cursor.  In every cursor operation (REST /cursor and      *)
(* /cursor-sorted, GraphQL users, gRPC ListUsersCursor and SearchUsers) a  *)
(* token that was sent and does not decode is answered with an error,      *)
(* never with a page.                                                      *)
(***************************************************************************)
C3_MalformedCursorSurfaced ==
  ( /\ req.op \in {"rest_cursor", "rest_cursor_sorted", "gql_users", "grpc_cursor", "grpc_search"}
    /\ Truthy(TokenOf(req))
    /\ decodeCursor(TokenOf(req)) = Null )
  => ~resp.ok

(***************************************************************************)
(* C4  Deleted cursor target.  In the forward id-cursor operations, with   *)
(* the rows in id order, a token that decodes to an id no row of S has is  *)
(* answered without error by the page that starts at the first row of S    *)
(* with a greater id.                                                      *)
(***************************************************************************)
C4_DeletedTargetSucceeds ==
  ( /\ req.op \in IdCursorOps
    /\ Absent(req.sort)
    /\ SizeWithinBounds(req)
    /\ Truthy(TokenOf(req))
    /\ TokenId(TokenOf(req)).t = "num"
    /\ PlaceOf(TokenId(TokenOf(req)).v, View(req)) = 0 )
  => /\ resp.ok
     /\ IsPrefix(resp.items,
                 SelectSeq(View(req), LAMBDA id : id > TokenId(TokenOf(req)).v))
     /\ (\E k \in 1..Len(View(req)) : View(req)[k] > TokenId(TokenOf(req)).v)
          => Len(resp.items) > 0


(***************************************************************************)
(* C5  Cursor stability under change.  When, between two consecutive       *)
(* requests of a forward run of an id-cursor operation, rows were inserted *)
(* or deleted only before the cursor's row, which remains, the second      *)
(* request returns exactly the rows that follow the cursor's row in the    *)
(* current sequence, as many as the page size allows: none after the       *)
(* cursor is skipped, none of the first request's rows is repeated, and    *)
(* none of the rows of the whole run is when every change the run has met  *)
(* was of that kind.  GET /cursor-sorted, which locates by value and not   *)
(* by the cursor's row, is the matter of C22.                              *)
(***************************************************************************)
C5_CursorStability ==
  ( /\ req.op \in IdCursorOps
    /\ trail.afterWrite = "before"
    /\ trail.stale = "" )
  => /\ resp.ok
     /\ PlaceOf(trail.cursorId, Ids(users)) > 0
     /\ resp.items =
          SubSeq(Ids(users), PlaceOf(trail.cursorId, Ids(users)) + 1,
                 Min(PlaceOf(trail.cursorId, Ids(users)) + SizeOf(req).v, Len(users)))
     /\ \A k \in 1..Len(resp.items) : PlaceOf(resp.items[k], trail.last) = 0
     /\ trail.clean
          => \A k \in 1..Len(resp.items) : PlaceOf(resp.items[k], trail.prior) = 0

\* a page was read after a change before the cursor's row
C5_Witness ==
  /\ req.op = "rest_cursor"
  /\ trail.afterWrite = "before"
  /\ trail.clean
  /\ trail.stale = ""
  /\ resp.ok
  /\ Len(resp.items) = 2
  /\ Len(trail.prior) >= 2

(***************************************************************************)
(* C6  Forward/backward symmetry, as first stated: a forward run of        *)
(* users(first, after) to the end, then a backward run of                  *)
(* users(last, before) from the last cursor obtained, reproduces the whole *)
(* sequence.                                                               *)
(***************************************************************************)
C6_BackwardReproducesAll ==
  (trail.kind = "back" /\ resp.ok /\ ~resp.has_prev) => trail.back = View(req)

(***************************************************************************)
(* C6  Forward/backward symmetry, amended: the backward run from the last  *)
(* cursor obtained reproduces, each page in forward display order, the     *)
(* sequence up to the record that cursor names, which it leaves out:       *)
(* 'before' is exclusive.                                                  *)
(***************************************************************************)
C6_BackwardReproducesAllButLast ==
  (trail.kind = "back" /\ resp.ok /\ ~resp.has_prev)
  => trail.back = SubSeq(View(req), 1, Len(View(req)) - 1)

\* a backward run of two pages and more has reached the first record
C6_Witness ==
  /\ trail.kind = "back" /\ resp.ok /\ ~resp.has_prev
  /\ trail.pages >= 2
  /\ Len(trail.back) >= 3
  /\ Len(trail.seen) = Len(trail.back) + 1

(***************************************************************************)
(* C7  Boundary page size.  A request for pages of MAX_PAGE_SIZE + 1000    *)
(* rows, at a position that has at least MAX_PAGE_SIZE rows ahead, is      *)
(* answered with exactly MAX_PAGE_SIZE rows by REST /offset and /cursor,   *)
(* GraphQL users, and gRPC ListUsersOffset and ListUsersCursor.            *)
(***************************************************************************)
C7_BoundaryPageSize ==
  ( /\ req.op \in {"rest_offset", "rest_cursor", "gql_users", "grpc_offset", "grpc_cursor"}
    /\ SizeOf(req) = Num(MaxLimit + 1000)
    /\ StartOf(req) + MaxLimit <= Len(View(req)) )
  => resp.ok /\ Len(resp.items) = MaxLimit

\* a page after a cursor was asked for with MAX_PAGE_SIZE + 1000
C7_Witness ==
  /\ req.op = "rest_cursor"
  /\ SizeOf(req) = Num(MaxLimit + 1000)
  /\ Truthy(req.cursor)
  /\ Len(resp.items) = MaxLimit
  /\ Len(users) > MaxLimit + 1

(***************************************************************************)
(* C8  Page size bound.  Whatever page size, cursor or offset is asked     *)
(* for, the page a paginated operation returns holds at most 100 rows.     *)
(***************************************************************************)
C8_PageSizeBound == resp.ok => Len(resp.items) <= MaxLimit

(***************************************************************************)
(* C9  Lower clamp.  A request for a page size below 1 is answered as the  *)
(* same request for a page size of 1 is: it is not rejected and no other   *)
(* size takes its place.                                                   *)
(***************************************************************************)
C9_LowerClamp ==
  ( /\ req.op \notin {"none", "encode", "decode", "decode_grpc"}
    /\ SizeOf(req).t = "num"
    /\ SizeOf(req).v < 1 )
  => resp = Respond(WithSize(req, 1))

(***************************************************************************)
(* C10  Offset mode.  For a page number p >= 1 and a page size L, the      *)
(* requested size clamped to 100, over the filtered and sorted sequence S: *)
(* the items are S[(p-1)*L : (p-1)*L + L], hasNext iff p*L < |S|,          *)
(* hasPrevious iff p > 1, and totalPages = ceil(|S| / L); in REST /offset  *)
(* and /users, gRPC ListUsersOffset, and GraphQL usersOffset asked with    *)
(* limit = L in [1, 100] and offset = (p-1)*L.                             *)
(***************************************************************************)
C10_OffsetMode ==
  /\ ( /\ req.op \in {"rest_offset", "rest_users", "grpc_offset"}
       /\ PageOf(req).t = "num" /\ PageOf(req).v >= 1
       /\ SizeOf(req).t = "num" /\ SizeOf(req).v >= 1 )
     => IsOffsetPage(resp, View(req), PageOf(req).v, Min(SizeOf(req).v, MaxLimit))
  /\ ( /\ req.op = "gql_usersOffset"
       /\ SizeWithinBounds(req)
       /\ req.offset.t = "num" /\ req.offset.v >= 0
       /\ req.offset.v % req.limit.v = 0 )
     => IsOffsetPage(resp, View(req), (req.offset.v \div req.limit.v) + 1, req.limit.v)

\* the second page of two rows, with pages before and after it
C10_Witness ==
  /\ req.op = "gql_usersOffset"
  /\ req.limit = Num(2) /\ req.offset = Num(2)
  /\ resp.ok /\ Len(resp.items) = 2
  /\ resp.has_next /\ resp.has_prev
  /\ resp.total_pages >= 3

C12_ConnectionCursors ==
  (req.op \in {"gql_users", "gql_users_v1"} /\ resp.ok)
  => /\ Len(resp.cursors) = Len(resp.items)
     /\ \A k \in 1..Len(resp.items) :
          /\ resp.cursors[k] \in TextTokens(nextId)
          /\ decodeCursor(resp.cursors[k])
               = Obj(<< <<KeyId, Str(NumberToString(resp.items[k]))>> >>)
     /\ Len(resp.items) > 0
          => /\ resp.startCursor = resp.cursors[1]
             /\ resp.endCursor = resp.cursors[Len(resp.items)]
     /\ (resp.startCursor = Null) <=> (Len(resp.items) = 0)
     /\ (resp.endCursor = Null) <=> (Len(resp.items) = 0)

\* a window of two edges, and an empty window after the last row's cursor
C12_Witness ==
  /\ req.op = "gql_users"
  /\ resp.ok
  /\ Len(resp.items) = 2
  /\ resp.startCursor # resp.endCursor

C12_WitnessEmpty ==
  /\ req.op = "gql_users"
  /\ resp.ok
  /\ Truthy(req.after)
  /\ Len(resp.items) = 0

(***************************************************************************)
(* C13  Sort totality.  For every list of rows and every sort, no two      *)
(* distinct rows compare equal under the sort's comparator, and the order  *)
(* applySorting produces is the one in which ascending id decides the      *)
(* ties, whatever the order of the list given.                             *)
(***************************************************************************)
C13_SortTotality ==
  req.op \in {"sort_gql", "sort_grpc"}
  => /\ \A i, j \in 1..Len(req.body) :
          i # j => SortCmpOf(req, req.body[i], req.body[j]) # 0
     /\ resp.items = Ids(TotalOrder(req))

(***************************************************************************)
(* C14  Combinator identities.  applyFilters with a filter whose and list  *)
(* has no children retains every row of the list, and with a filter whose  *)
(* or list has no children retains none.                                   *)
(***************************************************************************)
C14_CombinatorIdentities ==
  req.op = "filter_gql"
  => /\ req.filter = [NoFilter EXCEPT !.and = Arr(<<>>)] => resp.items = Ids(req.body)
     /\ req.filter = [NoFilter EXCEPT !.or = Arr(<<>>)] => resp.items = <<>>

(***************************************************************************)
(* C15  Filter idempotence.  For every list of rows and every filter e,    *)
(* applyFilters with { and: [e, e] } retains exactly the rows, in the same *)
(* order, that applyFilters with e retains.                                *)
(***************************************************************************)
C15_FilterIdempotence ==
  (req.op = "filter_gql" /\ IsTwice(req.filter))
  => resp.items = Ids(applyFilters(req.body, req.filter.and.v[1]))

\* an or of two leaves, given twice, retained some rows of the table and not all
C15_Witness ==
  /\ req.op = "filter_gql"
  /\ IsTwice(req.filter)
  /\ Truthy(req.filter.and.v[1].or)
  /\ req.body = users
  /\ Len(resp.items) > 0
  /\ Len(resp.items) < Len(users)

(***************************************************************************)
(* C16  Operator coverage.  In POST /api/v1/users/search, for leaves       *)
(* (field, operator, operand) of a known field, an operator of {eq, neq,   *)
(* gt, gte, lt, lte, in, not_in, contains, starts_with, ends_with,         *)
(* is_null, is_not_null} and an operand that fits it, the result is        *)
(* exactly the rows that satisfy the predicate of every leaf.              *)
(***************************************************************************)
C16_OperatorCoverage ==
  ( /\ IsLeafSearch(req)
    /\ \A k \in 1..Len(req.body.filters) :
         /\ req.body.filters[k].operator \in ClaimOperators
         /\ KnownField(req.body.filters[k].field)
         /\ OperandFits(req.body.filters[k].operator, req.body.filters[k].value) )
  => /\ resp.ok
     /\ resp.items =
          Ids(SelectSeq(users, LAMBDA u :
                \A k \in 1..Len(req.body.filters) :
                  Satisfies(RestField(u, req.body.filters[k].field),
                            req.body.filters[k].operator, req.body.filters[k].value)))

(***************************************************************************)
(* C17  Lenient evaluation.  In POST /api/v1/users/search a leaf of a      *)
(* known field whose operand does not fit its operator (no list for in or  *)
(* nin, no text for contains or starts_with, a value without order for a   *)
(* range operator) is false of every row and raises nothing: the request   *)
(* completes, with no row.                                                 *)
(***************************************************************************)
C17_LenientEvaluation ==
  ( /\ IsLeafSearch(req)
    /\ \E k \in 1..Len(req.body.filters) :
         /\ req.body.filters[k].operator \in SearchOperators
         /\ KnownField(req.body.filters[k].field)
         /\ ~OperandFits(req.body.filters[k].operator, req.body.filters[k].value) )
  => /\ resp.ok
     /\ resp.items = <<>>

(***************************************************************************)
(* C18  Unknown fields fail closed.  In POST /api/v1/users/search a leaf   *)
(* that names a field the rows do not have, with any operator the handler  *)
(* knows and an operand that fits it, matches no row.                      *)
(***************************************************************************)
C18_UnknownFieldsFailClosed ==
  ( /\ IsLeafSearch(req)
    /\ \E k \in 1..Len(req.body.filters) :
         /\ req.body.filters[k].operator \in SearchOperators
         /\ ~KnownField(req.body.filters[k].field)
         /\ OperandFits(req.body.filters[k].operator, req.body.filters[k].value) )
  => /\ resp.ok
     /\ resp.items = <<>>

(***************************************************************************)
(* C19  Ranked list.  For SearchUsers with a non-empty query, every result *)
(* returned carries the score of its own record, which is positive; the    *)
(* results read so far, over all the pages of the run, are in              *)
(* non-increasing order of score when no sort applies, and in the order of *)
(* the sort when one is given.                                             *)
(***************************************************************************)
C19_RankedList ==
  (req.op = "grpc_search" /\ Truthy(req.query) /\ resp.ok)
  => /\ Len(resp.scores) = Len(resp.items)
     /\ \A k \in 1..Len(resp.items) :
          /\ resp.scores[k] = calculateSearchScore(RowOf(resp.items[k]), req.query.v)
          /\ resp.scores[k] > 0
     /\ \A k \in 1..(Len(trail.seen) - 1) :
          IF SortApplies(req)
          THEN GrpcSortCmp(RowOf(trail.seen[k]), RowOf(trail.seen[k + 1]), req.sort) <= 0
          ELSE calculateSearchScore(RowOf(trail.seen[k]), req.query.v)
                 >= calculateSearchScore(RowOf(trail.seen[k + 1]), req.query.v)

\* a ranked run of more than one page, in which a result of a lower score
\* follows rows of a higher one
C19_Witness ==
  /\ req.op = "grpc_search"
  /\ Truthy(req.query)
  /\ ~SortApplies(req)
  /\ resp.ok
  /\ trail.pages >= 2
  /\ Len(resp.items) > 0
  /\ calculateSearchScore(RowOf(trail.seen[1]), req.query.v) > resp.scores[Len(resp.scores)]
  /\ trail.seen[1] > resp.items[Len(resp.items)]

(***************************************************************************)
(* C20  Stream cancellation.  In StreamUsers, once call.cancelled is true  *)
(* no further row is written to the stream: the rows written are those     *)
(* written when the cancellation arrived, wherever it falls between the    *)
(* queued runs of sendNext; and the call is not ended after it.            *)
(***************************************************************************)
C20_StreamCancellation ==
  (call.open /\ call.cancelled)
  => /\ Len(call.written) = call.writtenAtCancel
     /\ ~call.ended

\* a stream cancelled after its second row, whose queued sendNext has run
C20_Witness ==
  /\ call.open
  /\ call.cancelled
  /\ ~call.queued
  /\ Len(call.written) = 2
  /\ Len(call.rows) > 2

(***************************************************************************)
(* C21  No mutation.  After any sequence and any interleaving of filter,   *)
(* sort, offset, cursor, stream and search operations, the shared          *)
(* collection holds the same rows, in the same order, with the same field  *)
(* values as at the start: every operation sorts and filters a copy.       *)
(***************************************************************************)
C21_NoMutation == users = MakeUsers(NumUsers)

\* a page in an order that is not the collection's was answered while a
\* stream was half written
C21_Witness ==
  /\ req.op = "rest_users"
  /\ req.sort # <<>>
  /\ req.filter = NoQuery
  /\ resp.ok
  /\ Len(resp.items) = 2
  /\ resp.items # SubSeq(Ids(users), 1, 2)
  /\ call.open
  /\ ~call.ended
  /\ Len(call.written) > 0
  /\ Len(call.written) < Len(call.rows)
  /\ users = MakeUsers(NumUsers)

(***************************************************************************)
(* C22  Compound-key cursor completeness.  For GET /cursor-sorted with any *)
(* sort field of the rows and either sort order, sort fields with equal    *)
(* values included, a run that follows cursors.next from the first page    *)
(* has read at every moment a prefix of the rows in the order they are     *)
(* sorted in, and all of them once no next cursor is given: every row      *)
(* once, in the sorted order.                                              *)
(***************************************************************************)
C22_CompoundCursorCompleteness ==
  (req.op = "rest_cursor_sorted" /\ trail.kind = "run")
  => /\ resp.ok
     /\ IsPrefix(trail.seen, SortedView(req))
     /\ ~Truthy(NextToken(req, resp)) => trail.seen = SortedView(req)

(***************************************************************************)
(* C23  Forward window.  For a forward cursor request (REST /cursor,       *)
(* GraphQL users(first, after), gRPC ListUsersCursor and ListUsers) with a *)
(* page size L in [1, 100], whose start position in S is s (0 without a    *)
(* cursor, the index of the cursor's record plus one otherwise), the page  *)
(* is exactly S[s : s + L], and hasNext / has_more is true iff             *)
(* |S| > s + L.  So with no cursor and L = 10 over ids 1..150 the page is  *)
(* ids 1..10 with hasNext true, and the page from its end cursor is ids    *)
(* 11..20.                                                                 *)
(***************************************************************************)
C23_ForwardWindow ==
  ( /\ req.op \in IdCursorOps
    /\ req.last.t = "undef" /\ req.before.t = "undef"
    /\ SizeWithinBounds(req)
    /\ Truthy(TokenOf(req)) => /\ TokenId(TokenOf(req)).t = "num"
                               /\ StartPosition(req) > 0 )
  => /\ resp.ok
     /\ resp.items = SubSeq(View(req), StartPosition(req) + 1,
                            Min(StartPosition(req) + SizeOf(req).v, Len(View(req))))
     /\ HasMoreOf(req, resp) = (Len(View(req)) > StartPosition(req) + SizeOf(req).v)
     /\ (SizeOf(req).v = 10 /\ View(req) = [k \in 1..TableSize |-> k])
          => /\ ~Truthy(TokenOf(req))
                  => resp.items = [k \in 1..10 |-> k] /\ HasMoreOf(req, resp)
             /\ (trail.kind = "run" /\ trail.pages = 2)
                  => resp.items = [k \in 1..10 |-> 10 + k]

\* the second page of ten of the whole table, read from the end cursor of
\* the first
C23_Witness ==
  /\ req.op = "grpc_cursor"
  /\ SizeOf(req) = Num(10)
  /\ View(req) = [k \in 1..TableSize |-> k]
  /\ trail.kind = "run"
  /\ trail.pages = 2
  /\ trail.prior = [k \in 1..10 |-> k]
  /\ TokenId(TokenOf(req)) = Num(10)
  /\ resp.items = [k \in 1..10 |-> 10 + k]
  /\ resp.has_more

(***************************************************************************)
(* C24  PageInfo flags.  For every combination of first, after, last and   *)
(* before that the users resolver accepts and that yields a window with    *)
(* edges, hasNextPage is true iff the filtered and sorted sequence has a   *)
(* record after the last edge, and hasPreviousPage is true iff it has a    *)
(* record before the first edge.                                           *)
(***************************************************************************)
C24_PageInfoFlags ==
  (req.op = "gql_users" /\ resp.ok /\ Len(resp.items) > 0)
  => /\ resp.has_next = (PlaceOf(resp.items[Len(resp.items)], View(req)) < Len(View(req)))
     /\ resp.has_prev = (PlaceOf(resp.items[1], View(req)) > 1)

(***************************************************************************)
(* C25  Backward mode.  For users(last: n, before: c) with n in [1, 100],  *)
(* where the record of c is at index i of the filtered and sorted sequence *)
(* S, the edges are exactly S[max(0, i - n) : i]: the up to n records      *)
(* immediately before the cursor's record, in forward display order, the   *)
(* cursor's record itself left out.                                        *)
(***************************************************************************)
C25_BackwardMode ==
  ( /\ req.op = "gql_users"
    /\ req.first.t = "undef" /\ req.after.t = "undef"
    /\ req.last.t = "num" /\ req.last.v \in 1..MaxLimit
    /\ Truthy(req.before)
    /\ TokenId(req.before).t = "num"
    /\ PlaceOf(TokenId(req.before).v, View(req)) > 0 )
  => /\ resp.ok
     /\ resp.items =
          SubSeq(View(req),
                 Max(0, PlaceOf(TokenId(req.before).v, View(req)) - 1 - req.last.v) + 1,
                 PlaceOf(TokenId(req.before).v, View(req)) - 1)

\* the two records before the cursor's, which is the fifth of a sorted
\* sequence, with records before them
C25_Witness ==
  /\ req.op = "gql_users"
  /\ req.first.t = "undef" /\ req.after.t = "undef"
  /\ req.last = Num(2)
  /\ ~Absent(req.sort)
  /\ Truthy(req.before)
  /\ PlaceOf(TokenId(req.before).v, View(req)) = 5
  /\ resp.ok
  /\ resp.items = SubSeq(View(req), 3, 4)
  /\ resp.items[1] > resp.items[2]

(***************************************************************************)
(* C26  Per-record filter semantics.  applyFilters(L, f) returns exactly   *)
(* the rows r of L, in the order of L, for which matches(r, f) holds,      *)
(* matches being evaluated on r alone: a row is retained from L iff it is  *)
(* retained from the list of that row alone, and, the members of f holding *)
(* of r, iff some branch of or matches r and every branch of and matches   *)
(* r, at any depth.  (An or list without branches is the matter of C14.)   *)
(***************************************************************************)
C26_PerRecordFilter ==
  req.op = "filter_gql"
  => /\ resp.items =
          Ids(SelectSeq(req.body, LAMBDA r : applyFilters(<<r>>, req.filter) = <<r>>))
     /\ OrListsHaveBranches(req.filter)
          => resp.items = Ids(SelectSeq(req.body, LAMBDA r : RowMatches(r, req.filter)))

\* a filter with an and list inside a branch of its or list retained some
\* rows of the table, and fewer than the first branch of or alone does
C26_Witness ==
  /\ req.op = "filter_gql"
  /\ ~Absent(req.filter)
  /\ Truthy(req.filter.or)
  /\ Len(req.filter.or.v) = 2
  /\ Truthy(req.filter.or.v[2].and)
  /\ req.body = users
  /\ Len(resp.items) > 0
  /\ Len(resp.items) < Len(users)
  /\ Len(resp.items) < Len(applyFilters(users, req.filter.or.v[1]))

(***************************************************************************)
(* C27  Stream completion.  If the client never cancels, StreamUsers       *)
(* eventually has written every record of the filtered and sorted sequence *)
(* (cut to limit when limit > 0) exactly once, in the order of the         *)
(* sequence, and then ends the stream, once; no record is written after    *)
(* the end.  At every moment the records written are a prefix of the       *)
(* sequence; a stream that has ended has written all of it, has ended      *)
(* once and has no sendNext queued.                                        *)
(***************************************************************************)
C27_StreamCompletion ==
  /\ [](call.open =>
          /\ IsPrefix(call.written, StreamView(call.request))
          /\ call.ends <= 1
          /\ call.ended => /\ call.written = StreamView(call.request)
                           /\ call.ends = 1
                           /\ ~call.queued)
  /\ call.open ~> \/ call.cancelled
                  \/ call.ended /\ call.written = StreamView(call.request)

\* a stream of a sorted sequence cut to three records, never cancelled, has
\* written the three and ended
C27_Witness ==
  /\ call.open
  /\ ~call.cancelled
  /\ call.ended
  /\ call.request.limit = 3
  /\ Len(call.written) = 3
  /\ call.written # SubSeq(Ids(users), 1, 3)
  /\ call.written = StreamView(call.request)

C29_PreviousPageCursor ==
  /\ (req.op = "rest_cursor" /\ resp.ok)
       => ((resp.prev = Null) <=> (StartPosition(req) = 0))
  /\ trail.kind = "prev"
       => /\ resp.ok
          /\ resp.items =
               SubSeq(Ids(users),
                      Max(0, PlaceOf(trail.cursorId, Ids(users)) - resp.limit) + 1,
                      PlaceOf(trail.cursorId, Ids(users)))
          /\ \A i \in 1..Len(resp.items), j \in 1..Len(trail.last) :
               resp.items[i] # trail.last[j]

(***************************************************************************)
(* C30  Pagination terminates.  Over static rows, filter and sort, a run   *)
(* that starts with no token and calls ListUsersCursor, GET /cursor or     *)
(* ListUsers again and again with the next token it was handed: every page *)
(* starts strictly after the start of the page before, and the response    *)
(* with has_more = false and an empty or null next token is the one of     *)
(* call number ceil(|S| / limit), of the first call when S is empty.       *)
(***************************************************************************)
C30_PaginationTerminates ==
  (req.op \in {"rest_cursor", "grpc_cursor", "grpc_list"} /\ trail.kind = "run")
  => /\ resp.ok
     /\ trail.pages <= CallsToRead(View(req), LimitOf(req))
     /\ resp.has_more <=> trail.pages < CallsToRead(View(req), LimitOf(req))
     /\ resp.has_more <=> Truthy(resp.next)
     /\ ~resp.has_more => resp.next \in {Null, Str(<<>>)}
     /\ trail.pages >= 2
          => /\ StartPosition(req) > PlaceOf(trail.last[1], View(req)) - 1
             /\ StartPosition(req) = (trail.pages - 1) * LimitOf(req)

\* the third and last call of a run over six rows, by pages of two
C30_Witness ==
  /\ req.op = "grpc_cursor" /\ trail.kind = "run"
  /\ Len(View(req)) = 6 /\ LimitOf(req) = 2
  /\ trail.pages = 3
  /\ ~resp.has_more /\ resp.next = Str(<<>>)
  /\ trail.seen = View(req)

=============================================================================
